---- MODULE Spec2Model ----
(***************************************************************************)
(* CADhelp orthographic projection generator (src/cadapp.py) and its       *)
(* geometry helpers, and the script-generating web app (src/cadtest3.py),  *)
(* as state machines.                                                      *)
(*                                                                         *)
(* Numbers.  Python floats are modelled in fixed point: a length in        *)
(* millimetres, a pixel coordinate, a scale factor and a sine or cosine    *)
(* are all integers counting thousandths (U).  Products and quotients are  *)
(* rounded down to the grid, so equalities between computed coordinates    *)
(* are stated up to Tol.  Angles are whole degrees.                        *)
(***************************************************************************)
EXTENDS Integers, Sequences, FiniteSets, TLC

VARIABLES parsed, canvas, FONT, pc, calc, web

vars == <<parsed, canvas, FONT, pc, calc, web>>

-----------------------------------------------------------------------------
(* Fixed-point arithmetic                                                  *)

U == 10^3

Tol == U \div 2

Abs(x) == IF x < 0 THEN -x ELSE x

Max2(a, b) == IF a >= b THEN a ELSE b

Min2(a, b) == IF a <= b THEN a ELSE b

RECURSIVE MaxSeq(_)
MaxSeq(s) == IF Len(s) = 1 THEN s[1] ELSE Max2(s[1], MaxSeq(Tail(s)))

RECURSIVE MinSeq(_)
MinSeq(s) == IF Len(s) = 1 THEN s[1] ELSE Min2(s[1], MinSeq(Tail(s)))

\* a * b for fixed-point a, b (split so that no intermediate leaves 32 bits)
Mul(a, b) == (a \div U) * b + ((a % U) * b) \div U

\* a / b for fixed-point a, b, b # 0
Div(a, b) == IF b > 0 THEN (a * U) \div b ELSE -((a * U) \div (-b))

Close(a, b) == Abs(a - b) <= Tol

ClosePt(p, q) == Close(p[1], q[1]) /\ Close(p[2], q[2])

\* millimetres or pixels given as a whole number
Fx(n) == n * U

-----------------------------------------------------------------------------
(* math.sin / math.cos of an angle in degrees, thousandths                 *)

SinTab ==
  << 17, 35, 52, 70, 87, 105, 122, 139, 156, 174, 191, 208, 225, 242, 259,
     276, 292, 309, 326, 342, 358, 375, 391, 407, 423, 438, 454, 469, 485, 500,
     515, 530, 545, 559, 574, 588, 602, 616, 629, 643, 656, 669, 682, 695, 707,
     719, 731, 743, 755, 766, 777, 788, 799, 809, 819, 829, 839, 848, 857, 866,
     875, 883, 891, 899, 906, 914, 921, 927, 934, 940, 946, 951, 956, 961, 966,
     970, 974, 978, 982, 985, 988, 990, 993, 995, 996, 998, 999, 999, 1000, 1000 >>

\* sine of d degrees, 0 <= d <= 90
SinQ(d) == IF d = 0 THEN 0 ELSE SinTab[d]

\* math.sin(math.radians(d)) on the fixed-point grid
SinDeg(d) ==
  LET r == d % 360 IN
    IF r <= 90 THEN SinQ(r)
    ELSE IF r <= 180 THEN SinQ(180 - r)
    ELSE IF r <= 270 THEN -SinQ(r - 180)
    ELSE -SinQ(360 - r)

\* math.cos(math.radians(d)) on the fixed-point grid
CosDeg(d) == SinDeg(d + 90)

-----------------------------------------------------------------------------
(* Config / constants                                                      *)

CANVAS_W == 1400
CANVAS_H == 900
MARGIN == 36
XY_Y == CANVAS_H \div 2

LINE_HP == 4
LINE_VP == 3
LINE_CONST == 1

\* boxes are (left, top, right, bottom), whole pixels
FRONT_BOX == <<MARGIN, MARGIN, CANVAS_W \div 2 - MARGIN, XY_Y - 20>>
TOP_BOX == <<MARGIN, XY_Y + 20, CANVAS_W \div 2 - MARGIN, CANVAS_H - MARGIN>>
INFO_BOX == <<CANVAS_W \div 2 + 10, MARGIN, CANVAS_W - MARGIN, CANVAS_H - MARGIN>>

-----------------------------------------------------------------------------
(* Drawing primitives: one record per ImageDraw call                       *)

\* src: the routine that made the call; op: the ImageDraw method; pts: its
\* coordinate list (fixed point); width: its width argument; text: message
Prim(src, op, pts, width, text) ==
  [src |-> src, op |-> op, pts |-> pts, width |-> width, text |-> text]

NoText == [msg |-> "", args |-> <<>>]

Msg(m, a) == [msg |-> m, args |-> a]

\* FONT after load_font(sz): set on the first call only
load_font(font, sz) == IF font = 0 THEN sz ELSE font

draw_xy_line ==
  << Prim("draw_xy_line", "line",
          << <<Fx(MARGIN), Fx(XY_Y)>>, <<Fx(CANVAS_W - MARGIN), Fx(XY_Y)>> >>,
          1, NoText),
     Prim("draw_xy_line", "text", << <<Fx(MARGIN + 6), Fx(XY_Y - 30)>> >>, 0,
          Msg("Front view (above XY) - First angle", <<>>)),
     Prim("draw_xy_line", "text", << <<Fx(MARGIN + 6), Fx(XY_Y + 8)>> >>, 0,
          Msg("Top view (below XY)", <<>>)) >>

\* the info panel: the INFO_BOX frame and the text in it, as one primitive
draw_info_panel(text) ==
  << Prim("draw_info_panel", "info",
          << <<Fx(INFO_BOX[1]), Fx(INFO_BOX[2])>>, <<Fx(INFO_BOX[3]), Fx(INFO_BOX[4])>> >>,
          1, text) >>

\* the scaler without its zero-extent default: at extent 0 the division fails
\* and no scale comes back, written 0
fit_scale_no_default(max_mm, box) ==
  LET w == Fx(box[3] - box[1] - 20)
      h == Fx(box[4] - box[2] - 20)
  IN  IF max_mm = 0 THEN 0
      ELSE Min2(Div(w, max_mm), Div(h, max_mm))

fit_scale_for_box(max_mm, box) ==
  LET w == Fx(box[3] - box[1] - 20)
      h == Fx(box[4] - box[2] - 20)
  IN  IF max_mm = 0 THEN U
      ELSE Min2(Div(w, max_mm), Div(h, max_mm))

\* the mapping without the vertical flip
transform_no_flip(x_mm, y_mm, box, scale) ==
  LET cx == Fx(box[1] + box[3]) \div 2
      cy == Fx(box[2] + box[4]) \div 2
  IN  << cx + Mul(x_mm, scale), cy + Mul(y_mm, scale) >>

transform_to_box_coords(x_mm, y_mm, box, scale) ==
  LET cx == Fx(box[1] + box[3]) \div 2
      cy == Fx(box[2] + box[4]) \div 2
  IN  << cx + Mul(x_mm, scale), cy - Mul(y_mm, scale) >>

\* params.get(key, dflt)
Get(params, key, dflt) == IF key \in DOMAIN params THEN params[key] ELSE dflt

-----------------------------------------------------------------------------
(* draw_point                                                              *)

\* max_mm * 2, the extent draw_point scales to
PointExtent(params) ==
  LET infront == Fx(Get(params, "infront", 30))
      above == Fx(Get(params, "above", 30))
      max_mm == MaxSeq(<<infront, above, Fx(100)>>)
  IN  Mul(max_mm, 2 * U)

PointScale(params) == fit_scale_for_box(PointExtent(params), FRONT_BOX)

draw_point(params, label) ==
  LET infront == Fx(Get(params, "infront", 30))
      above == Fx(Get(params, "above", 30))
      scale == PointScale(params)
      f == transform_to_box_coords(0, above, FRONT_BOX, scale)
      t == transform_to_box_coords(0, infront, TOP_BOX, scale)
  IN  << Prim("draw_point", "ellipse",
              << <<f[1] - Fx(6), f[2] - Fx(6)>>, <<f[1] + Fx(6), f[2] + Fx(6)>> >>,
              LINE_HP, NoText),
         Prim("draw_point", "ellipse",
              << <<t[1] - Fx(5), t[2] - Fx(5)>>, <<t[1] + Fx(5), t[2] + Fx(5)>> >>,
              LINE_VP, NoText),
         Prim("draw_point", "line", <<f, t>>, LINE_CONST, NoText),
         Prim("draw_point", "text", << <<f[1] + Fx(10), f[2] - Fx(10)>> >>, 0,
              Msg(label \o "''", <<>>)),
         Prim("draw_point", "text", << <<t[1] + Fx(10), t[2] - Fx(10)>> >>, 0,
              Msg(label \o "'", <<>>)) >>

-----------------------------------------------------------------------------
(* Python values that are None or a float.  A float is "num" (on the       *)
(* fixed-point grid), or one of the two magnitudes the grid cannot hold:   *)
(* "tiny", v times kappa, and "huge", v divided by kappa, where            *)
(* kappa = math.cos(math.radians(90)) = 6.1e-17, which is not zero.        *)

NoneV == [k |-> "none", v |-> 0]

Num(v) == [k |-> "num", v |-> v]

Tiny(v) == IF v = 0 THEN Num(0) ELSE [k |-> "tiny", v |-> v]

Huge(v) == IF v = 0 THEN Num(0) ELSE [k |-> "huge", v |-> v]

\* math.cos(math.radians(d)) as a float: at an odd multiple m of 90 degrees it
\* is m * kappa up to sign, never 0.0
cos_radians(d) ==
  IF d % 180 = 90
    THEN LET m == (d - 90) \div 90 + 1
         IN  Tiny(IF ((d - 90) \div 180) % 2 = 0 THEN Fx(m) ELSE -Fx(m))
    ELSE Num(CosDeg(d))

\* x * c for a float x on the grid and a cosine c
MulF(x, c) ==
  IF c.k = "tiny" THEN Tiny(Mul(x, c.v)) ELSE Num(Mul(x, c.v))

AbsF(x) == [x EXCEPT !.v = Abs(x.v)]

\* x / c for floats x, c with c # 0.0
DivF(x, c) ==
  IF x.k = "num" /\ x.v = 0 THEN Num(0)
  ELSE IF x.k = "num" /\ c.k = "num" THEN Num(Div(x.v, c.v))
  ELSE IF x.k = "num" /\ c.k = "tiny" THEN Huge(Div(x.v, c.v))
  ELSE IF x.k = "tiny" /\ c.k = "tiny" THEN Num(Div(x.v, c.v))
  ELSE IF x.k = "tiny" /\ c.k = "num" THEN Tiny(Div(x.v, c.v))
  ELSE Huge(Div(x.v, c.v))

\* true_len: None or a float on the grid; angle_deg: None or whole degrees
apparent_length(true_len, angle_deg) ==
  IF true_len.k = "none" \/ angle_deg.k = "none" THEN NoneV
  ELSE AbsF(MulF(true_len.v, cos_radians(angle_deg.v)))

true_from_apparent(apparent, angle_deg) ==
  IF apparent.k = "none" \/ angle_deg.k = "none" THEN NoneV
  ELSE LET c == cos_radians(angle_deg.v)
       IN  IF c.k = "num" /\ c.v = 0 THEN NoneV
           ELSE DivF(apparent, c)

\* f"{x:.2f}": hundredths
Fmt2(x) == IF x.k = "num" THEN (x.v + 5) \div 10 ELSE 0

-----------------------------------------------------------------------------
(* draw_line                                                               *)

\* params.get(key, dflt) or dflt: an absent, None or zero value gives dflt
GetOr(params, key, dflt) ==
  LET x == Get(params, key, NoneV)
  IN  IF x.k = "none" \/ x.v = 0 THEN dflt ELSE x.v

\* the construction with the plan rotated by angle_vp in place of the fixed
\* 25 degrees
LineEndsByBeta(params) ==
  LET L == Fx(GetOr(params, "true_length", 80))
      alpha == GetOr(params, "angle_hp", 30)
      plan_angle == GetOr(params, "angle_vp", 45)
      dz == Mul(L, SinDeg(alpha))
      plan_len == Mul(L, CosDeg(alpha))
      dx == Mul(plan_len, CosDeg(plan_angle))
      dy == Mul(plan_len, SinDeg(plan_angle))
      Ax == -Mul(L, U \div 10)
  IN  << <<Ax, 0, 0>>, <<Ax + dx, dy, dz>> >>

\* the 3D construction: <<A, B>>, each <<x, y, z>>
LineEnds(params) ==
  LET L == Fx(GetOr(params, "true_length", 80))
      alpha == GetOr(params, "angle_hp", 30)
      plan_angle == 25
      dz == Mul(L, SinDeg(alpha))
      plan_len == Mul(L, CosDeg(alpha))
      dx == Mul(plan_len, CosDeg(plan_angle))
      dy == Mul(plan_len, SinDeg(plan_angle))
      Ax == -Mul(L, U \div 10)
  IN  << <<Ax, 0, 0>>, <<Ax + dx, dy, dz>> >>

\* max_mm * 2.2, the extent draw_line scales to
LineExtent(params) ==
  LET L == Fx(GetOr(params, "true_length", 80))
      e == LineEnds(params)
      max_mm == MaxSeq(<<Abs(e[1][1]), Abs(e[2][1]), Abs(e[1][2]), Abs(e[2][2]),
                         Abs(e[1][3]), Abs(e[2][3]), L, Fx(150)>>)
  IN  Mul(max_mm, 2200)

LineScale(params) == fit_scale_for_box(LineExtent(params), FRONT_BOX)

\* math.degrees(math.atan2(abs(dy), abs(dx))), 90.0 when dx is 0, to the whole
\* degree: off(t) falls as t grows and changes sign at the angle, and the
\* nearer of the two degrees around the sign change is taken
ApparentAngle(dx, dy) ==
  IF dx = 0 THEN 90
  ELSE LET off(t) == Mul(Abs(dy), CosDeg(t)) - Mul(Abs(dx), SinDeg(t))
           hi == CHOOSE t \in 0..90 :
                   /\ off(t) <= 0
                   /\ \A u \in 0..(t - 1) : off(u) > 0
       IN  IF hi > 0 /\ off(hi - 1) < -off(hi) THEN hi - 1 ELSE hi

Marker(src, c, r, width) ==
  Prim(src, "ellipse",
       << <<c[1] - Fx(r), c[2] - Fx(r)>>, <<c[1] + Fx(r), c[2] + Fx(r)>> >>,
       width, NoText)

draw_line(params) ==
  LET L == Fx(GetOr(params, "true_length", 80))
      alpha == GetOr(params, "angle_hp", 30)
      beta == GetOr(params, "angle_vp", 45)
      top_ap == apparent_length(Num(L), Num(alpha))
      front_ap == apparent_length(Num(L), Num(beta))
      e == LineEnds(params)
      scale == LineScale(params)
      A_front == transform_to_box_coords(e[1][1], e[1][3], FRONT_BOX, scale)
      B_front == transform_to_box_coords(e[2][1], e[2][3], FRONT_BOX, scale)
      A_top == transform_to_box_coords(e[1][1], e[1][2], TOP_BOX, scale)
      B_top == transform_to_box_coords(e[2][1], e[2][2], TOP_BOX, scale)
      theta_front == ApparentAngle(B_front[1] - A_front[1], A_front[2] - B_front[2])
      theta_top == ApparentAngle(B_top[1] - A_top[1], A_top[2] - B_top[2])
  IN  << Prim("draw_line", "line", <<A_front, B_front>>, LINE_HP, NoText),
         Marker("draw_line", A_front, 5, LINE_HP),
         Marker("draw_line", B_front, 5, LINE_HP),
         Prim("draw_line", "line", <<A_top, B_top>>, LINE_VP, NoText),
         Marker("draw_line", A_top, 4, LINE_VP),
         Marker("draw_line", B_top, 4, LINE_VP),
         Prim("draw_line", "line", <<A_front, A_top>>, LINE_CONST, NoText),
         Prim("draw_line", "line", <<B_front, B_top>>, LINE_CONST, NoText),
         Prim("draw_line", "text", << <<A_front[1] - Fx(18), A_front[2] - Fx(26)>> >>,
              0, Msg("A''", <<>>)),
         Prim("draw_line", "text", << <<B_front[1] - Fx(18), B_front[2] - Fx(26)>> >>,
              0, Msg("B''", <<>>)),
         Prim("draw_line", "text", << <<A_top[1] - Fx(18), A_top[2] + Fx(8)>> >>,
              0, Msg("A'", <<>>)),
         Prim("draw_line", "text", << <<B_top[1] - Fx(18), B_top[2] + Fx(8)>> >>,
              0, Msg("B'", <<>>)) >>
      \o draw_info_panel(Msg("True length / apparent lengths",
                             <<L, Fmt2(top_ap), alpha, Fmt2(front_ap), beta,
                               theta_front, theta_top>>))

-----------------------------------------------------------------------------
(* regular_polygon_vertices                                                *)

\* math.pi / n and 2 * math.pi * i / n are whole degrees for the n modelled
\* (the divisors of 180)
PolyN(n) == IF n < 3 THEN 3 ELSE n

\* the circumradius taken as side / sin(pi / n): the factor 2 dropped
polygon_vertices_wide(n, side) ==
  LET m == PolyN(n)
      R == Div(side, SinDeg(180 \div m))
  IN  [i \in 1..m |->
         LET ang == -90 + (360 * (i - 1)) \div m
         IN  << Mul(R, CosDeg(ang)), Mul(R, SinDeg(ang)) >>]

regular_polygon_vertices(n, side) ==
  LET m == PolyN(n)
      R == Div(side, 2 * SinDeg(180 \div m))
  IN  [i \in 1..m |->
         LET ang == -90 + (360 * (i - 1)) \div m
         IN  << Mul(R, CosDeg(ang)), Mul(R, SinDeg(ang)) >>]

\* (px, py) rotated by theta degrees
Rotate(p, theta) ==
  << Mul(p[1], CosDeg(theta)) - Mul(p[2], SinDeg(theta)),
     Mul(p[1], SinDeg(theta)) + Mul(p[2], CosDeg(theta)) >>

\* the centre of a box, whole pixels rounded down, as a fixed-point pixel point
Center(box) == << Fx((box[1] + box[3]) \div 2), Fx((box[2] + box[4]) \div 2) >>

\* draw.line(pts + [pts[0]]): the closed outline through pts
Closed(pts) == pts \o << pts[1] >>

-----------------------------------------------------------------------------
(* draw_lamina                                                             *)

\* a Python list held under a key whose value may also be a float
List(v) == [k |-> "list", v |-> v]

\* s = float(sizes) raises TypeError: params['size'] is a non-empty list
LaminaRaises(params) ==
  LET size == Get(params, "size", NoneV)
  IN  size.k = "list" /\ Len(size.v) > 0

\* params.get('size') or (params.get('sizes') and params.get('sizes')[0]) or 30.0
\* as a float (params['size'] is absent or a float)
LaminaSize(params) ==
  LET size == Get(params, "size", NoneV)
      sizes == Get(params, "sizes", <<>>)
  IN  IF size.k = "num" /\ size.v # 0 THEN Fx(size.v)
      ELSE IF Len(sizes) > 0 /\ sizes[1] # 0 THEN Fx(sizes[1])
      ELSE Fx(30)

\* max_mm * 2.2, the extent draw_lamina scales to
LaminaExtent(params) == Mul(Max2(LaminaSize(params), Fx(100)), 2200)

LaminaScale(params) == fit_scale_for_box(LaminaExtent(params), FRONT_BOX)

\* the projectors: front vertex i to top vertex i
Projectors(src, pts_f, pts_t) ==
  [i \in 1..Len(pts_f) |-> Prim(src, "line", <<pts_f[i], pts_t[i]>>, LINE_CONST, NoText)]

TriangleFront(s, surface_angle, scale) ==
  LET center_f == Center(FRONT_BOX)
      h == Mul(s, 866)
      h_f == Mul(h, CosDeg(surface_angle))
  IN  << <<center_f[1], center_f[2] - h_f \div 2>>,
         <<center_f[1] - Mul(s \div 2, scale), center_f[2] + h_f \div 2>>,
         <<center_f[1] + Mul(s \div 2, scale), center_f[2] + h_f \div 2>> >>

\* the top view of the true outline: rotated by edge_angle, scaled, centred
TopPoints(outline, edge_angle, scale) ==
  LET center_t == Center(TOP_BOX)
  IN  [i \in 1..Len(outline) |->
         LET r == Rotate(outline[i], edge_angle)
         IN  << center_t[1] + Mul(r[1], scale), center_t[2] + Mul(r[2], scale) >>]

\* <<w, h>> of the square or rectangle
RectSize(shape, s) == << s, IF shape = "rectangle" THEN Mul(s, 1500) ELSE s >>

\* <<leftf, topf, rightf, botf>>
RectFront(w, h, surface_angle, scale) ==
  LET center_f == Center(FRONT_BOX)
      h_f == Mul(h, CosDeg(surface_angle))
  IN  << center_f[1] - Mul(w \div 2, scale), center_f[2] - h_f \div 2,
         center_f[1] + Mul(w \div 2, scale), center_f[2] + h_f \div 2 >>

PolygonFront(outline, surface_angle, scale) ==
  LET center_f == Center(FRONT_BOX)
  IN  [i \in 1..Len(outline) |->
         << center_f[1] + Mul(outline[i][1], scale),
            center_f[2] + Mul(Mul(outline[i][2], CosDeg(surface_angle)), scale) >>]

draw_lamina(params) ==
  LET shape == Get(params, "shape", "triangle")
      surface_angle == Get(params, "surface_angle", 60)
      edge_angle == Get(params, "edge_angle_to_VP", 45)
      s == LaminaSize(params)
      scale == LaminaScale(params)
      center_f == Center(FRONT_BOX)
      center_t == Center(TOP_BOX)
  IN  IF shape = "triangle" THEN
        LET pts_f == TriangleFront(s, surface_angle, scale)
            pts_t == TopPoints(regular_polygon_vertices(3, s), edge_angle, scale)
        IN  << Prim("draw_lamina", "line", Closed(pts_f), LINE_HP, NoText),
               Prim("draw_lamina", "line", Closed(pts_t), LINE_VP, NoText) >>
            \o Projectors("draw_lamina", pts_f, pts_t)
            \o draw_info_panel(Msg("Triangle", <<s, surface_angle, edge_angle>>))
      ELSE IF shape \in {"square", "rectangle"} THEN
        LET wh == RectSize(shape, s)
            w == wh[1]
            h == wh[2]
            rf == RectFront(w, h, surface_angle, scale)
            corners == << <<-(w \div 2), -(h \div 2)>>, <<w \div 2, -(h \div 2)>>,
                          <<w \div 2, h \div 2>>, <<-(w \div 2), h \div 2>> >>
            pts_t == TopPoints(corners, edge_angle, scale)
            front_pts == << <<rf[1], rf[2]>>, <<rf[3], rf[2]>>,
                            <<rf[3], rf[4]>>, <<rf[1], rf[4]>> >>
        IN  << Prim("draw_lamina", "rectangle",
                    << <<rf[1], rf[2]>>, <<rf[3], rf[4]>> >>, LINE_HP, NoText),
               Prim("draw_lamina", "line", Closed(pts_t), LINE_VP, NoText) >>
            \o Projectors("draw_lamina", front_pts, pts_t)
            \o draw_info_panel(Msg("Rectangle", <<w, h, surface_angle>>))
      ELSE IF shape \in {"pentagon", "hexagon", "polygon"} THEN
        LET n == IF shape = "hexagon" THEN 6 ELSE IF shape = "pentagon" THEN 5 ELSE 6
            polygon_pts == regular_polygon_vertices(n, s)
            pts_f == PolygonFront(polygon_pts, surface_angle, scale)
            pts_t == TopPoints(polygon_pts, edge_angle, scale)
        IN  << Prim("draw_lamina", "line", Closed(pts_f), LINE_HP, NoText),
               Prim("draw_lamina", "line", Closed(pts_t), LINE_VP, NoText) >>
            \o Projectors("draw_lamina", pts_f, pts_t)
            \o draw_info_panel(Msg(shape, <<s, surface_angle>>))
      ELSE IF shape = "circle" THEN
        LET r == s \div 2
            rv == Mul(Mul(r, CosDeg(surface_angle)), scale)
        IN  << Prim("draw_lamina", "ellipse",
                    << <<center_f[1] - Mul(r, scale), center_f[2] - rv>>,
                       <<center_f[1] + Mul(r, scale), center_f[2] + rv>> >>,
                    LINE_HP, NoText),
               Prim("draw_lamina", "ellipse",
                    << <<center_t[1] - Mul(r, scale), center_t[2] - Mul(r, scale)>>,
                       <<center_t[1] + Mul(r, scale), center_t[2] + Mul(r, scale)>> >>,
                    LINE_VP, NoText),
               Prim("draw_lamina", "line", <<center_f, center_t>>, LINE_CONST, NoText) >>
            \o draw_info_panel(Msg("Circle", <<s, surface_angle>>))
      ELSE draw_info_panel(Msg("Shape not recognized for lamina.", <<>>))

-----------------------------------------------------------------------------
(* draw_prism                                                              *)

\* draw.rectangle([cx - hw, cy - hh, cx + hw, cy + hh]) about the centre c
RectAbout(src, c, hw, hh, width) ==
  Prim(src, "rectangle",
       << <<c[1] - hw, c[2] - hh>>, <<c[1] + hw, c[2] + hh>> >>, width, NoText)

\* <<n, side, height>> of a prism request, by the length of the sizes list
PrismSizes(sizes) ==
  IF Len(sizes) >= 3 THEN << sizes[1], Fx(sizes[2]), Fx(sizes[3]) >>
  ELSE IF Len(sizes) = 2 THEN << 4, Fx(sizes[1]), Fx(sizes[2]) >>
  ELSE IF Len(sizes) = 1 THEN << 4, Fx(sizes[1]), Mul(Fx(sizes[1]), 1200) >>
  ELSE << 4, Fx(50), Fx(80) >>

\* max(side*2, height) * 3, the extent the prism branch scales to
PrismExtent(side, height) == Mul(Max2(side * 2, height), 3 * U)

PrismScale(side, height) == fit_scale_for_box(PrismExtent(side, height), FRONT_BOX)

\* the gap the loop leaves between two development panels, pixels
PanelGap == Fx(6)

\* x0 of development panel i (from 0)
PanelX(i, face_w) == Fx(INFO_BOX[1] + 20) + i * (face_w + PanelGap)

\* the lateral development: n rectangles of side x height
Development(n, side, height, scale) ==
  LET face_w == Mul(side, scale)
      face_h == Mul(height, scale)
      dev_y == Fx(FRONT_BOX[2])
  IN  [i \in 1..n |->
         Prim("draw_prism", "rectangle",
              << <<PanelX(i - 1, face_w), dev_y>>,
                 <<PanelX(i - 1, face_w) + face_w, dev_y + face_h>> >>,
              LINE_HP, NoText)]

PrismTop(n, side, scale) ==
  LET center_t == Center(TOP_BOX)
      poly == regular_polygon_vertices(n, side)
  IN  [i \in 1..Len(poly) |->
         << center_t[1] + Mul(poly[i][1], scale), center_t[2] + Mul(poly[i][2], scale) >>]

\* the plan's bounding-box width, mm
PlanWidth(n, side) ==
  LET poly == regular_polygon_vertices(n, side)
      xs == [i \in 1..Len(poly) |-> poly[i][1]]
  IN  MaxSeq(xs) - MinSeq(xs)

\* an unsupported solid drawn as the default cube
UnsupportedAsCube ==
  draw_info_panel(Msg("Cube side", <<Fx(50)>>))
  \o << RectAbout("draw_prism", Center(FRONT_BOX), Fx(50), Fx(50), LINE_HP),
        RectAbout("draw_prism", Center(TOP_BOX), Fx(50), Fx(50), LINE_VP) >>

\* the last branch of draw_prism: a message, no geometry
UnsupportedSolid == draw_info_panel(Msg("Solid type not yet implemented.", <<>>))

\* the dimensions a branch of draw_prism reads from sizes, with its defaults:
\* cube <<a>>, cuboid <<w, d, h>>, cylinder and cone <<diam, h>>,
\* pyramid <<base, height>>, prism <<side, height>>
SolidDims(params) ==
  LET typ == Get(params, "solid_type", "prism")
      sizes == Get(params, "sizes", <<>>)
  IN  IF typ = "cube" THEN << IF Len(sizes) > 0 THEN Fx(sizes[1]) ELSE Fx(50) >>
      ELSE IF typ = "cuboid" THEN
        IF Len(sizes) >= 3 THEN << Fx(sizes[1]), Fx(sizes[2]), Fx(sizes[3]) >>
        ELSE << Fx(80), Fx(50), Fx(60) >>
      ELSE IF typ \in {"cylinder", "cone"} THEN
        IF Len(sizes) >= 2 THEN << Fx(sizes[1]), Fx(sizes[2]) >>
        ELSE << Fx(50), Fx(80) >>
      ELSE IF typ = "pyramid" THEN
        IF Len(sizes) >= 2 THEN << Fx(sizes[1]), Fx(sizes[2]) >>
        ELSE << Fx(60), Fx(80) >>
      ELSE IF typ = "prism" THEN << PrismSizes(sizes)[2], PrismSizes(sizes)[3] >>
      ELSE <<>>

\* the extent a branch of draw_prism hands to fit_scale_for_box
SolidExtent(params) ==
  LET typ == Get(params, "solid_type", "prism")
      d == SolidDims(params)
  IN  IF typ = "cube" THEN Mul(d[1], 3 * U)
      ELSE IF typ = "cuboid" THEN Mul(MaxSeq(d), 3 * U)
      ELSE IF typ = "cylinder" THEN Mul(Max2(d[1], d[2]), 2500)
      ELSE IF typ = "cone" THEN Mul(Max2(d[1], d[2]), 3 * U)
      ELSE IF typ = "pyramid" THEN Mul(d[1], 3 * U)
      ELSE IF typ = "prism" THEN PrismExtent(d[1], d[2])
      ELSE 0

draw_prism(params) ==
  LET typ == Get(params, "solid_type", "prism")
      sizes == Get(params, "sizes", <<>>)
      center_f == Center(FRONT_BOX)
      center_t == Center(TOP_BOX)
  IN  IF typ = "cube" THEN
        LET a == IF Len(sizes) > 0 THEN Fx(sizes[1]) ELSE Fx(50)
            scale == fit_scale_for_box(SolidExtent(params), FRONT_BOX)
            l == Mul(a, scale) \div 2
        IN  draw_info_panel(Msg("Cube side", <<a>>))
            \o << RectAbout("draw_prism", center_f, l, l, LINE_HP),
                  RectAbout("draw_prism", center_t, l, l, LINE_VP) >>
      ELSE IF typ = "cuboid" THEN
        LET w == IF Len(sizes) >= 3 THEN Fx(sizes[1]) ELSE Fx(80)
            d == IF Len(sizes) >= 3 THEN Fx(sizes[2]) ELSE Fx(50)
            h == IF Len(sizes) >= 3 THEN Fx(sizes[3]) ELSE Fx(60)
            scale == fit_scale_for_box(SolidExtent(params), FRONT_BOX)
            lw == Mul(w, scale) \div 2
            lh == Mul(h, scale) \div 2
            ld == Mul(d, scale) \div 2
        IN  draw_info_panel(Msg("Cuboid", <<w, d, h>>))
            \o << RectAbout("draw_prism", center_f, lw, lh, LINE_HP),
                  RectAbout("draw_prism", center_t, lw, ld, LINE_VP) >>
      ELSE IF typ = "cylinder" THEN
        LET diam == IF Len(sizes) >= 2 THEN Fx(sizes[1]) ELSE Fx(50)
            h == IF Len(sizes) >= 2 THEN Fx(sizes[2]) ELSE Fx(80)
            scale == fit_scale_for_box(SolidExtent(params), FRONT_BOX)
            r == Mul(diam \div 2, scale)
            hh == Mul(h, scale) \div 2
            r3 == r \div 3
        IN  draw_info_panel(Msg("Cylinder", <<diam, h>>))
            \o << Prim("draw_prism", "ellipse",
                       << <<center_f[1] - r, center_f[2] - hh - r3>>,
                          <<center_f[1] + r, center_f[2] - hh + r3>> >>, LINE_HP, NoText),
                  Prim("draw_prism", "rectangle",
                       << <<center_f[1] - r, center_f[2] - hh + r3>>,
                          <<center_f[1] + r, center_f[2] + hh - r3>> >>, LINE_HP, NoText),
                  Prim("draw_prism", "ellipse",
                       << <<center_f[1] - r, center_f[2] + hh - r3>>,
                          <<center_f[1] + r, center_f[2] + hh + r3>> >>, LINE_HP, NoText),
                  Prim("draw_prism", "ellipse",
                       << <<center_t[1] - r, center_t[2] - r>>,
                          <<center_t[1] + r, center_t[2] + r>> >>, LINE_VP, NoText) >>
      ELSE IF typ = "cone" THEN
        LET diam == IF Len(sizes) >= 2 THEN Fx(sizes[1]) ELSE Fx(50)
            h == IF Len(sizes) >= 2 THEN Fx(sizes[2]) ELSE Fx(80)
            scale == fit_scale_for_box(SolidExtent(params), FRONT_BOX)
            r == Mul(diam \div 2, scale)
            hh == Mul(h, scale) \div 2
        IN  draw_info_panel(Msg("Cone", <<diam, h>>))
            \o << Prim("draw_prism", "polygon",
                       << <<center_f[1] - r, center_f[2] + hh>>,
                          <<center_f[1] + r, center_f[2] + hh>>,
                          <<center_f[1], center_f[2] - hh>> >>, 1, NoText),
                  Prim("draw_prism", "ellipse",
                       << <<center_t[1] - r, center_t[2] - r>>,
                          <<center_t[1] + r, center_t[2] + r>> >>, LINE_VP, NoText) >>
      ELSE IF typ = "pyramid" THEN
        LET base == IF Len(sizes) >= 2 THEN Fx(sizes[1]) ELSE Fx(60)
            height == IF Len(sizes) >= 2 THEN Fx(sizes[2]) ELSE Fx(80)
            scale == fit_scale_for_box(SolidExtent(params), FRONT_BOX)
            b == Mul(base, scale) \div 2
        IN  draw_info_panel(Msg("Pyramid", <<base, height>>))
            \o << Prim("draw_prism", "line",
                       << <<center_t[1] - b, center_t[2] - b>>,
                          <<center_t[1] + b, center_t[2] - b>>,
                          <<center_t[1] + b, center_t[2] + b>>,
                          <<center_t[1] - b, center_t[2] + b>>,
                          <<center_t[1] - b, center_t[2] - b>> >>, LINE_VP, NoText),
                  Prim("draw_prism", "polygon",
                       << <<center_f[1] - b, center_f[2] + b>>,
                          <<center_f[1] + b, center_f[2] + b>>,
                          <<center_f[1], center_f[2] - Mul(height, scale)>> >>,
                       1, NoText) >>
      ELSE IF typ = "prism" THEN
        LET nsh == PrismSizes(sizes)
            n == nsh[1]
            side == nsh[2]
            height == nsh[3]
            scale == PrismScale(side, height)
            pts_t == PrismTop(n, side, scale)
            w_px == Mul(PlanWidth(n, side), scale)
            h_px == Mul(height, scale)
        IN  draw_info_panel(Msg("Regular prism", <<n, side, height>>))
            \o << Prim("draw_prism", "line", Closed(pts_t), LINE_VP, NoText),
                  RectAbout("draw_prism", center_f, w_px \div 2, h_px \div 2, LINE_HP) >>
            \o Development(n, side, height, scale)
      ELSE UnsupportedSolid

-----------------------------------------------------------------------------
(* The requests the model draws                                            *)

LenStep == 40
MaxLenSteps == 5
AngStep == 15
MaxAngSteps == 6
MaxTurnSteps == 24
MaxSides == 12

\* lengths, sizes and distances, whole mm
Lengths == { k * LenStep : k \in 0..MaxLenSteps }

\* inclinations, whole degrees
Angles == { k * AngStep : k \in 0..MaxAngSteps }

\* the n of a prism: those whose polygon angles are whole degrees, and n < 3
Sides == { n \in 0..MaxSides : n < 3 \/ 180 % n = 0 }

\* the dict holding the keys of full that are in keys
Restrict(full, keys) == [k \in keys |-> full[k]]

NoParams == Restrict([none |-> 0], {})

PointParams ==
  { Restrict([infront |-> i, above |-> a], ks) :
      i \in Lengths, a \in Lengths, ks \in SUBSET {"infront", "above"} }

OptLengths == { NoneV } \cup { Num(x) : x \in Lengths }

OptAngles == { NoneV } \cup { Num(x) : x \in Angles }

LineParams ==
  { [true_length |-> l, angle_hp |-> a, angle_vp |-> b] :
      l \in OptLengths, a \in OptAngles, b \in OptAngles }
  \cup { NoParams }

Shapes == { "triangle", "square", "rectangle", "pentagon", "hexagon", "circle",
            "polygon", "rhombus" }

LaminaParams ==
  { Restrict([shape |-> sh, sizes |-> <<s>>, surface_angle |-> a,
              edge_angle_to_VP |-> e], ks) :
      sh \in Shapes, s \in Lengths, a \in Angles, e \in {0, AngStep, 2 * AngStep},
      ks \in { {"shape", "sizes", "surface_angle"}, {"shape", "sizes"},
               {"shape", "surface_angle"}, {"sizes", "surface_angle"},
               {"shape", "sizes", "surface_angle", "edge_angle_to_VP"} } }
  \cup { [shape |-> sh, size |-> Num(s)] : sh \in Shapes, s \in Lengths }
  \cup { [shape |-> sh, sizes |-> <<w, h>>, surface_angle |-> a] :
           sh \in {"square", "rectangle"}, w \in Lengths, h \in Lengths,
           a \in {0, 2 * AngStep, 4 * AngStep} }
  \cup { [shape |-> "rectangle", size |-> List(<<w, h>>)] :
           w \in Lengths, h \in Lengths }

SolidTypes == { "cube", "cuboid", "cylinder", "cone", "pyramid", "prism",
                "solid", "sphere" }

\* the sizes lists: up to three lengths, or <<n, side, height>>
SizeLists ==
  { <<>> } \cup { <<a>> : a \in Lengths } \cup { <<a, b>> : a \in Lengths, b \in Lengths }
  \cup { <<a, b, c>> : a \in Sides, b \in Lengths, c \in Lengths }

SolidParams ==
  { [solid_type |-> t, sizes |-> z] : t \in SolidTypes, z \in SizeLists }
  \cup { [sizes |-> z] : z \in SizeLists }
  \cup { [solid_type |-> t] : t \in SolidTypes }

\* numbers the parser's [-+]? accepts and no routine checks: negative
\* distances, lengths and sizes
Negatives == { -LenStep, -(3 * LenStep) }

NegativeRequests ==
  { [type |-> "point", params |-> [infront |-> n, above |-> a]] :
      n \in Negatives, a \in Lengths }
  \cup { [type |-> "point", params |-> [infront |-> i, above |-> n]] :
           i \in Lengths, n \in Negatives }
  \cup { [type |-> "line",
          params |-> [true_length |-> Num(n), angle_hp |-> Num(a), angle_vp |-> NoneV]] :
           n \in Negatives, a \in Angles }
  \cup { [type |-> "lamina", params |-> [shape |-> sh, sizes |-> <<n>>]] :
           sh \in Shapes, n \in Negatives }
  \cup { [type |-> "solid", params |-> [solid_type |-> "cube", sizes |-> <<n>>]] :
           n \in Negatives }

Requests ==
  NegativeRequests
  \cup { [type |-> "point", params |-> p] : p \in PointParams }
  \cup { [type |-> "line", params |-> p] : p \in LineParams }
  \cup { [type |-> "lamina", params |-> p] : p \in LaminaParams }
  \cup { [type |-> "solid", params |-> p] : p \in SolidParams }
  \cup { [type |-> "unknown", params |-> NoParams] }

\* parse_text_question("") == {}: no type, no params
Unparsed == [type |-> "none", params |-> NoParams]

-----------------------------------------------------------------------------
(* The web app (src/cadtest3.py): constants and construction routines      *)

\* username -> password; a name that is not a key gives None ("absent")
USERS(u) == IF u = "student" THEN "cad2026" ELSE "absent"

SCALE == U

XY_GAP == 120

LEFT_MARGIN == 50

mm(x) == Mul(Fx(x), SCALE)

fv_origin == << Fx(LEFT_MARGIN + 150), Fx(200) >>

tv_origin == << fv_origin[1], fv_origin[2] - Fx(XY_GAP) >>

\* one ScrBuilder.line call, and the 'line' primitive appended with it
ScrLine(x1, y1, x2, y2) == [type |-> "line", at |-> <<x1, y1, x2, y2>>]

proj_point(params) ==
  LET x == fv_origin[1] + mm(Get(params, "infront", 0))
      y == fv_origin[2] - mm(Get(params, "above", 0))
      tx == tv_origin[1] + mm(Get(params, "infront", 0))
      ty == tv_origin[2]
  IN  << ScrLine(x - Fx(2), y, x + Fx(2), y), ScrLine(x, y - Fx(2), x, y + Fx(2)),
         ScrLine(tx - Fx(2), ty, tx + Fx(2), ty), ScrLine(tx, ty - Fx(2), tx, ty + Fx(2)) >>

proj_line(params) ==
  LET L == mm(Get(params, "length", 80))
      x0 == tv_origin[1] - L \div 2
      x1 == x0 + L
      apparent == Mul(L, CosDeg(Get(params, "theta", 30)))
  IN  << ScrLine(x0, tv_origin[2], x1, tv_origin[2]),
         ScrLine(fv_origin[1] - apparent \div 2, fv_origin[2],
                 fv_origin[1] + apparent \div 2, fv_origin[2]) >>

\* one ScrBuilder.circle call, and the 'circle' primitive appended with it
ScrCircle(x, y, r) == [type |-> "circle", at |-> <<x, y, r>>]

\* math.sqrt(3), thousandths
Sqrt3 == 1732

\* the four sides of the axis-parallel box with corners (x0, y0), (x1, y1),
\* from (x0, y0) along the y0 side first
ScrBox(x0, y0, x1, y1) ==
  << ScrLine(x0, y0, x1, y0), ScrLine(x1, y0, x1, y1),
     ScrLine(x1, y1, x0, y1), ScrLine(x0, y1, x0, y0) >>

proj_plane_lamina(params) ==
  LET shape == Get(params, "shape", "triangle")
      size == mm(Get(params, "size", 30))
      vscale == CosDeg(Get(params, "incline", 60))
      cx_tv == tv_origin[1]
      cy_tv == tv_origin[2]
      cx_fv == fv_origin[1]
      cy_fv == fv_origin[2]
      h == Mul(size, Sqrt3) \div 2
      apex == cy_fv - Mul((2 * Mul(size, Sqrt3)) \div 6, vscale)
      top ==
        IF shape = "triangle" THEN
          << ScrLine(cx_tv - size \div 2, cy_tv - h \div 3, cx_tv + size \div 2, cy_tv - h \div 3),
             ScrLine(cx_tv + size \div 2, cy_tv - h \div 3, cx_tv, cy_tv + (2 * h) \div 3),
             ScrLine(cx_tv, cy_tv + (2 * h) \div 3, cx_tv - size \div 2, cy_tv - h \div 3) >>
        ELSE IF shape = "circle" THEN << ScrCircle(cx_tv, cy_tv, size \div 2) >>
        ELSE ScrBox(cx_tv - size \div 2, cy_tv - size \div 2,
                    cx_tv + size \div 2, cy_tv + size \div 2)
      front ==
        IF shape = "triangle" THEN
          << ScrLine(cx_fv - size \div 2, cy_fv, cx_fv + size \div 2, cy_fv),
             ScrLine(cx_fv + size \div 2, cy_fv, cx_fv, apex),
             ScrLine(cx_fv, apex, cx_fv - size \div 2, cy_fv) >>
        ELSE IF shape = "circle" THEN << ScrCircle(cx_fv, cy_fv, size \div 2) >>
        ELSE ScrBox(cx_fv - size \div 2, cy_fv,
                    cx_fv + size \div 2, cy_fv - Mul(size, vscale))
  IN  top \o front

proj_solid(params) ==
  LET shape == Get(params, "shape", "cylinder")
      size == mm(Get(params, "size", 50))
      height == mm(Get(params, "height", 100))
      cx_tv == tv_origin[1]
      cy_tv == tv_origin[2]
      left == fv_origin[1] - size \div 2
      right == fv_origin[1] + size \div 2
      bottom == fv_origin[2]
      top ==
        IF shape = "cylinder" THEN << ScrCircle(cx_tv, cy_tv, size \div 2) >>
        ELSE ScrBox(cx_tv - size \div 2, cy_tv - size \div 2,
                    cx_tv + size \div 2, cy_tv + size \div 2)
  IN  top \o << ScrLine(left, bottom, right, bottom),
                ScrLine(right, bottom, right, bottom - height),
                ScrLine(right, bottom - height, left, bottom - height),
                ScrLine(left, bottom - height, left, bottom) >>

\* a question, by what the routines read of it: its leading token as a
\* sequence of characters (empty when the question starts with plain words),
\* the keywords among its words, the numbers followed by mm, the angles
\* followed by a degree sign, and the numbers in "N mm infront of VP" and
\* "N mm above HP"
Question(head, words, nums, angles, infront, above) ==
  [head |-> head, words |-> words, nums |-> nums, angles |-> angles,
   infront |-> infront, above |-> above]

Digits == { "0", "1", "2", "3", "4", "5", "6", "7", "8", "9" }

\* str.upper() of one character, for the letters of the problem codes
Upper(ch) ==
  IF ch = "p" THEN "P" ELSE IF ch = "l" THEN "L" ELSE IF ch = "d" THEN "D"
  ELSE IF ch = "s" THEN "S" ELSE IF ch = "o" THEN "O" ELSE IF ch = "a" THEN "A"
  ELSE ch

\* the alternatives of the pattern's group 1, in the order written: the
\* literal, and whether _\d+ follows it
CodeAlternatives ==
  << [lit |-> <<"P">>, num |-> FALSE], [lit |-> <<"L">>, num |-> FALSE],
     [lit |-> <<"P", "L">>, num |-> FALSE], [lit |-> <<"D", "L", "S">>, num |-> FALSE],
     [lit |-> <<"P", "O", "S", "A">>, num |-> FALSE],
     [lit |-> <<"L">>, num |-> TRUE], [lit |-> <<"P", "L">>, num |-> TRUE],
     [lit |-> <<"D", "L", "S">>, num |-> TRUE] >>

\* the number of leading digits of s from position i on
RECURSIVE DigitRun(_, _)
DigitRun(s, i) ==
  IF i <= Len(s) /\ s[i] \in Digits THEN 1 + DigitRun(s, i + 1) ELSE 0

\* the length of the text alternative alt matches at the start of s under
\* re.I, 0 when it does not match
MatchLen(alt, s) ==
  LET n == Len(alt.lit)
      lit == Len(s) >= n /\ \A i \in 1..n : Upper(s[i]) = alt.lit[i]
  IN  IF ~lit THEN 0
      ELSE IF ~alt.num THEN n
      ELSE IF Len(s) > n /\ s[n + 1] = "_" /\ DigitRun(s, n + 2) > 0
        THEN n + 1 + DigitRun(s, n + 2)
      ELSE 0

\* detect_problem_type: the code.  re.match tries the alternatives of group 1
\* from the left and keeps the first that matches, since :?\s*(.*)$ accepts
\* whatever follows on the line; without a match the keywords decide.
detect_problem_type(head, words) ==
  LET hits == { i \in 1..Len(CodeAlternatives) : MatchLen(CodeAlternatives[i], head) > 0 }
      first == CHOOSE i \in hits : \A j \in hits : i <= j
      m == MatchLen(CodeAlternatives[first], head)
  IN  IF hits # {} THEN [i \in 1..m |-> Upper(head[i])]
      ELSE IF words \cap {"triangle", "lamina"} # {} THEN <<"P", "L">>
      ELSE IF words \cap {"cylinder", "prism"} # {} THEN <<"D", "L", "S">>
      ELSE IF "line" \in words THEN <<"L">>
      ELSE IF "point" \in words THEN <<"P">>
      ELSE <<>>

\* the XY marker solve_question appends
XYMarker ==
  LET xline_y == (tv_origin[2] + fv_origin[2]) \div 2
  IN  ScrLine(Fx(LEFT_MARGIN), xline_y, Fx(LEFT_MARGIN + 500), xline_y)

\* solve_question up to its writes: the primitives, or the ValueError
solve_question(q) ==
  LET code == detect_problem_type(q.head, q.words)
      nums0 == IF Len(q.nums) > 0 THEN << q.nums[1] >> ELSE <<>>
      lamina(shape) ==
        proj_plane_lamina(
          [shape |-> shape,
           size |-> IF Len(q.nums) > 0 THEN q.nums[1] ELSE 30,
           incline |-> IF Len(q.angles) > 0 THEN q.angles[1] ELSE 60,
           resting_edge |-> IF Len(q.angles) > 1 THEN q.angles[2] ELSE 45])
  IN  IF code = <<"P">> THEN
        LET infront == IF q.infront.k = "num" THEN q.infront.v ELSE 0
            above == IF q.above.k = "num" THEN q.above.v ELSE 0
        IN  [ok |-> TRUE,
             prim |-> proj_point([infront |-> infront, above |-> above]) \o << XYMarker >>]
      ELSE IF code = <<"L">> THEN
        LET length == IF Len(q.nums) > 0 THEN q.nums[1] ELSE 80
            theta == IF Len(q.angles) > 0 THEN q.angles[1] ELSE 30
        IN  [ok |-> TRUE,
             prim |-> proj_line([length |-> length, theta |-> theta]) \o << XYMarker >>]
      ELSE IF code = <<"P", "L">> THEN
        LET shape == IF q.words \cap {"circular", "circle"} # {} THEN "circle"
                     ELSE IF "square" \in q.words THEN "square"
                     ELSE "triangle"
        IN  [ok |-> TRUE, prim |-> lamina(shape) \o << XYMarker >>]
      ELSE IF code = <<"D", "L", "S">> THEN
        LET shape == IF "cylinder" \in q.words THEN "cylinder" ELSE "prism"
            size == IF Len(q.nums) > 0 THEN q.nums[1] ELSE 50
            height == IF Len(q.nums) > 1 THEN q.nums[2] ELSE 100
        IN  [ok |-> TRUE,
             prim |-> proj_solid([shape |-> shape, size |-> size, height |-> height])
                        \o << XYMarker >>]
      ELSE IF q.words \cap {"lamina", "triangle"} # {} THEN
        [ok |-> TRUE,
         prim |-> lamina(IF "square" \in q.words THEN "square" ELSE "triangle")
                    \o << XYMarker >>]
      ELSE [ok |-> FALSE, prim |-> <<>>]

\* the files of the working directory
scr_path == "output_projection.scr"

dxf_path == "output_projection.dxf"

Paths == { scr_path, dxf_path, "cadtest3.py" }

\* what a file holds: nothing (no such file), a script, a drawing, or other
NoFile == [fmt |-> "none", body |-> <<>>]

File(fmt, body) == [fmt |-> fmt, body |-> body]

\* a response: its kind and, for a sent file, what was sent
Response(kind) == [kind |-> kind, body |-> NoFile]

Clients == { "c1", "c2" }

\* request.form.get('question', '') of a form without text
NoQuestion == Question(<<>>, {}, <<>>, <<>>, NoneV, NoneV)

\* a browser session: the session cookie's user, the handler in flight
\* ("idle": none; "saving": solve between its two writes, prim pending), the
\* question of its last solve, and the response to its last request (none
\* while solve is in flight)
Anonymous ==
  [user |-> "absent", step |-> "idle", q |-> NoQuestion, prim |-> <<>>,
   got |-> Response("none")]

WebIdle ==
  [files |-> [f \in Paths |-> IF f = "cadtest3.py" THEN File("py", <<>>) ELSE NoFile],
   client |-> [c \in Clients |-> Anonymous]]

-----------------------------------------------------------------------------
(* The page: one run of the script per interaction                         *)

CalcIdle ==
  [step |-> "start", true_len |-> NoneV, angle |-> NoneV, apparent |-> NoneV,
   result |-> NoneV]

Init ==
  /\ parsed = Unparsed
  /\ canvas = <<>>
  /\ FONT = 0
  /\ pc = "idle"
  /\ calc = CalcIdle
  /\ web = WebIdle

\* the user types a question (or sets overrides); the script reruns without
\* the button: nothing is drawn
Edit(req) ==
  /\ parsed = Unparsed
  /\ parsed' = req
  /\ canvas' = <<>>
  /\ FONT' = 0
  /\ pc' = "idle"
  /\ UNCHANGED <<calc, web>>

\* the user clears the question
Clear ==
  /\ parsed # Unparsed
  /\ parsed' = Unparsed
  /\ canvas' = <<>>
  /\ FONT' = 0
  /\ pc' = "idle"
  /\ UNCHANGED <<calc, web>>

\* "Generate projection": new_canvas, draw_xy_line, then the routine routed to
Generate(drawn) ==
  /\ pc = "idle"
  /\ canvas' = draw_xy_line \o drawn
  /\ FONT' = load_font(0, 18)
  /\ pc' = "shown"
  /\ UNCHANGED <<parsed, calc, web>>

GeneratePoint ==
  /\ parsed.type = "point"
  /\ Generate(draw_point(parsed.params, "A")
              \o draw_info_panel(Msg("Point projection",
                                     << Get(parsed.params, "infront", 30),
                                        Get(parsed.params, "above", 30) >>)))

GenerateLine ==
  /\ parsed.type = "line"
  /\ Generate(draw_line(parsed.params))

GenerateLamina ==
  /\ parsed.type = "lamina"
  /\ ~LaminaRaises(parsed.params)
  /\ Generate(draw_lamina(parsed.params))

\* draw_lamina raises before it draws: the run stops, no image is shown
GenerateRaises ==
  /\ parsed.type = "lamina"
  /\ LaminaRaises(parsed.params)
  /\ pc = "idle"
  /\ canvas' = <<>>
  /\ FONT' = load_font(0, 18)
  /\ pc' = "error"
  /\ UNCHANGED <<parsed, calc, web>>

GenerateSolid ==
  /\ parsed.type = "solid"
  /\ Generate(draw_prism(parsed.params))

GenerateFallback ==
  /\ parsed.type \notin {"point", "line", "lamina", "solid"}
  /\ Generate(draw_info_panel(Msg("Could not auto-detect question type.", <<>>)))

Next ==
  \/ \E req \in Requests : Edit(req)
  \/ Clear
  \/ GeneratePoint
  \/ GenerateLine
  \/ GenerateLamina
  \/ GenerateRaises
  \/ GenerateSolid
  \/ GenerateFallback

Spec == Init /\ [][Next]_vars

-----------------------------------------------------------------------------
(* parse_text_question on typed Line questions                             *)

\* a question text as the patterns see it: a sequence of tokens, each a word
\* in lower case or a number
Word(w) == [k |-> "word", w |-> w, n |-> 0]

Number(n) == [k |-> "number", w |-> "", n |-> n]

\* the words of the texts that are one letter long, and at most two
OneLetter == { "a" }

TwoLetters == OneLetter \cup { "ab", "to", "hp", "vp", "mm" }

\* the unit words (?:deg|°|degree|degrees) accepts, and (?:deg|°)
AngleUnits == { "deg", "°", "degree", "degrees" }

IsWord(text, i, ws) == i \in 1..Len(text) /\ text[i].k = "word" /\ text[i].w \in ws

IsNumber(text, i) == i \in 1..Len(text) /\ text[i].k = "number"

\* the members of a set of indices, in increasing order
RECURSIVE Ascending(_)
Ascending(S) ==
  IF S = {} THEN <<>>
  ELSE LET m == CHOOSE x \in S : \A y \in S : x <= y
       IN  << m >> \o Ascending(S \ {m})

\* None, or the number of the token at index seq[1]
FirstOf(text, seq) == IF Len(seq) = 0 THEN NoneV ELSE Num(text[seq[1]].n)

\* parse_text_question, its point and line branches; a text neither branch
\* takes is left to the later branches ("other")
parse_text_question(text) ==
  LET nums == Ascending({ i \in 1..Len(text) : IsNumber(text, i) })
      angs == Ascending({ i \in 1..Len(text) :
                            IsNumber(text, i) /\ IsWord(text, i + 1, AngleUnits) })
      is_point ==
        \/ \E i \in 1..Len(text) : IsWord(text, i, {"point"})
        \/ \E i \in 1..Len(text), j \in 1..Len(text) :
             /\ i < j
             /\ IsWord(text, i, OneLetter)
             /\ IsWord(text, j, {"infront", "above", "behind", "below", "mm"})
      is_line ==
        \/ \E i \in 1..Len(text) : IsWord(text, i, {"line", "true length"})
        \/ \E i \in 1..Len(text), j \in 1..Len(text), m \in 1..Len(text) :
             /\ i < j /\ j < m
             /\ IsWord(text, i, TwoLetters)
             /\ IsWord(text, j, TwoLetters)
             /\ IsWord(text, m, {"mm"})
      m1 == Ascending({ i \in 1..Len(text) :
                          /\ IsWord(text, i - 1, {"true length", "length", "long"})
                          /\ IsNumber(text, i)
                          /\ IsWord(text, i + 1, {"mm"}) })
      m1b == Ascending({ i \in 1..Len(text) :
                           /\ IsNumber(text, i)
                           /\ IsWord(text, i + 1, {"mm"})
                           /\ IsWord(text, i + 2, {"long", "length"}) })
      L == IF Len(m1) > 0 THEN FirstOf(text, m1)
           ELSE IF Len(m1b) > 0 THEN FirstOf(text, m1b)
           ELSE FirstOf(text, nums)
      \* (\d+(?:\.\d+)?)\s*(?:deg|°).*hp: the leftmost number with a unit
      \* that has the plane's name anywhere after it
      before(plane) ==
        Ascending({ i \in 1..Len(text) :
                      /\ IsNumber(text, i)
                      /\ IsWord(text, i + 1, AngleUnits)
                      /\ \E j \in (i + 2)..Len(text) : IsWord(text, j, {plane}) })
      a == IF Len(before("hp")) > 0 THEN FirstOf(text, before("hp"))
           ELSE FirstOf(text, angs)
      b == IF Len(before("vp")) > 0 THEN FirstOf(text, before("vp"))
           ELSE IF Len(angs) > 1 THEN Num(text[angs[2]].n)
           ELSE NoneV
  IN  IF Len(text) = 0 THEN [raw |-> text, type |-> "none", params |-> NoParams]
      ELSE IF is_point THEN
        [raw |-> text, type |-> "point",
         params |-> IF Len(nums) > 1
                      THEN [infront |-> text[nums[1]].n, above |-> text[nums[2]].n]
                    ELSE IF Len(nums) > 0 THEN [infront |-> text[nums[1]].n]
                    ELSE NoParams]
      ELSE IF is_line THEN
        [raw |-> text, type |-> "line",
         params |-> [true_length |-> L, angle_hp |-> a, angle_vp |-> b]]
      ELSE [raw |-> text, type |-> "other", params |-> NoParams]

\* "Line AB true length L mm inclined X deg to HP and Y deg to VP" and
\* "Line AB L mm long inclined X deg to HP and Y deg to VP" (the two examples
\* the page documents), with either unit
InclinedTo(X, Y, unit) ==
  << Word("inclined"), Number(X), Word(unit), Word("to"), Word("hp"), Word("and"),
     Number(Y), Word(unit), Word("to"), Word("vp") >>

LineTexts ==
  { << Word("line"), Word("ab"), Word("true length"), Number(L), Word("mm") >>
      \o InclinedTo(X, Y, unit) :
      L \in Lengths, X \in Angles, Y \in Angles, unit \in {"deg"} }
  \cup { << Word("line"), Word("ab"), Number(L), Word("mm"), Word("long") >>
           \o InclinedTo(X, Y, unit) :
           L \in Lengths, X \in Angles, Y \in Angles, unit \in {"°"} }
  \cup { << Word("a"), Word("line"), Word("ab"), Number(L), Word("mm"), Word("long") >>
           \o InclinedTo(X, Y, "deg") :
           L \in {2 * LenStep}, X \in {2 * AngStep}, Y \in {3 * AngStep} }

\* the user types a Line question; the script reruns and parses it
Type(text) ==
  /\ parsed = Unparsed
  /\ parsed' = parse_text_question(text)
  /\ canvas' = <<>>
  /\ FONT' = 0
  /\ pc' = "idle"
  /\ UNCHANGED <<calc, web>>

ParseNext ==
  \/ \E text \in LineTexts : Type(text)
  \/ Clear
  \/ GeneratePoint
  \/ GenerateLine

ParseSpec == Init /\ [][ParseNext]_vars

-----------------------------------------------------------------------------
(* The calculator helpers, applied to drawn inputs                         *)

TrueLens == { NoneV } \cup { Num(Fx(x)) : x \in Lengths }

TurnAngles == { NoneV } \cup { Num(k * AngStep) : k \in 0..MaxTurnSteps }

CalcInit ==
  /\ parsed = Unparsed
  /\ canvas = <<>>
  /\ FONT = 0
  /\ pc = "idle"
  /\ calc = CalcIdle
  /\ web = WebIdle

\* apparent_length(L, a)
CalcApparent(L, a) ==
  /\ calc.step = "start"
  /\ calc' = [step |-> "apparent", true_len |-> L, angle |-> a,
              apparent |-> apparent_length(L, a), result |-> NoneV]
  /\ UNCHANGED <<parsed, canvas, FONT, pc, web>>

\* true_from_apparent of the apparent length just computed, same angle
CalcRoundTrip ==
  /\ calc.step = "apparent"
  /\ calc' = [calc EXCEPT !.step = "round_trip",
                          !.result = true_from_apparent(calc.apparent, calc.angle)]
  /\ UNCHANGED <<parsed, canvas, FONT, pc, web>>

\* true_from_apparent(ap, a) of a given apparent length
CalcTrue(ap, a) ==
  /\ calc.step = "start"
  /\ calc' = [step |-> "true", true_len |-> NoneV, angle |-> a,
              apparent |-> ap, result |-> true_from_apparent(ap, a)]
  /\ UNCHANGED <<parsed, canvas, FONT, pc, web>>

CalcNext ==
  \/ \E L \in TrueLens, a \in TurnAngles : CalcApparent(L, a)
  \/ CalcRoundTrip
  \/ \E ap \in TrueLens, a \in TurnAngles : CalcTrue(ap, a)

CalcSpec == CalcInit /\ [][CalcNext]_vars

-----------------------------------------------------------------------------
(* Claims about the calculator helpers (CalcSpec)                          *)

\* the angle is an odd multiple of 90 degrees
OddQuarter(a) == a.k = "num" /\ a.v % 180 = 90

\* the float x is the length L (fixed point) up to the grid's rounding
IsLength(x, L) == x.k = "num" /\ Abs(x.v - L) <= Tol

\* C9: round trip: for every true length L and every angle theta that is not an
\* odd multiple of 90 degrees, true_from_apparent(apparent_length(L, theta), theta)
\* is L, with the same magnitude and the same sign.
C9_RoundTrip ==
  (calc.step = "round_trip" /\ calc.true_len.k = "num" /\ calc.angle.k = "num"
     /\ ~OddQuarter(calc.angle))
    => IsLength(calc.result, calc.true_len.v)

\* C10: true_from_apparent returns None whenever the angle is 90 degrees, for
\* every apparent length, and whenever either argument is None.
C10_NoneAtRightAngle ==
  calc.step = "true"
    => /\ (calc.apparent.k = "none" \/ calc.angle.k = "none") => calc.result = NoneV
       /\ calc.angle = Num(90) => calc.result = NoneV

-----------------------------------------------------------------------------
(* Reading the canvas                                                      *)

\* the image shown is that of a request of type t
Shown(t) == pc = "shown" /\ parsed.type = t

\* what the routed routine drew: the canvas after draw_xy_line's primitives
Body == SubSeq(canvas, Len(draw_xy_line) + 1, Len(canvas))

IsGeometry(p) == p.op \in {"line", "rectangle", "polygon", "ellipse"}

IsInfo(p) == p.op = "info"

IsMarker(p) == p.op = "ellipse"

IsProjector(p) == p.op = "line" /\ p.width = LINE_CONST

IsPanel(p) == p.op = "rectangle" /\ p.pts[1][1] >= Fx(INFO_BOX[1])

Geometry == SelectSeq(Body, IsGeometry)

Infos == SelectSeq(Body, IsInfo)

\* the centre of the bounding box an ellipse or rectangle was drawn in
Mid(p) == << (p.pts[1][1] + p.pts[2][1]) \div 2, (p.pts[1][2] + p.pts[2][2]) \div 2 >>

Xs(pts) == [i \in 1..Len(pts) |-> pts[i][1]]

Ys(pts) == [i \in 1..Len(pts) |-> pts[i][2]]

ExtentX(pts) == MaxSeq(Xs(pts)) - MinSeq(Xs(pts))

ExtentY(pts) == MaxSeq(Ys(pts)) - MinSeq(Ys(pts))

-----------------------------------------------------------------------------
(* Claims about draw_point (Spec)                                          *)

\* C3: for every Point request, draw_point emits exactly two markers, the
\* front-view marker at logical (0, height_above_HP) in the front box and the
\* top-view marker at logical (0, distance_in_front_of_VP) in the top box, and
\* exactly one Construction segment whose endpoints are the two marker centres;
\* an absent attribute takes the default 30.
C3_PointMarkers ==
  Shown("point") =>
    LET p == parsed.params
        infront == IF "infront" \in DOMAIN p THEN Fx(p.infront) ELSE Fx(30)
        above == IF "above" \in DOMAIN p THEN Fx(p.above) ELSE Fx(30)
        scale == PointScale(p)
        markers == SelectSeq(Geometry, IsMarker)
        segments == SelectSeq(Geometry, IsProjector)
        cf == Center(FRONT_BOX)
        ct == Center(TOP_BOX)
    IN  /\ Len(markers) = 2
        /\ Len(segments) = 1
        /\ Len(Geometry) = 3
        /\ Mid(markers[1]) = << cf[1], cf[2] - Mul(above, scale) >>
        /\ Mid(markers[2]) = << ct[1], ct[2] - Mul(infront, scale) >>
        /\ segments[1].pts = << Mid(markers[1]), Mid(markers[2]) >>

C3_Witness ==
  /\ Shown("point")
  /\ "infront" \notin DOMAIN parsed.params
  /\ "above" \in DOMAIN parsed.params
  /\ parsed.params.above > 100

-----------------------------------------------------------------------------
(* Claims about draw_prism (Spec)                                          *)

SupportedSolids == {"cube", "cuboid", "cylinder", "cone", "pyramid", "prism"}

\* C6: for every Solid request whose solid_type is not one of cube, cuboid,
\* cylinder, cone, pyramid, prism, draw_prism emits exactly one informational
\* message and no geometry primitive, whatever the sizes list contains.
C6_UnsupportedSolid ==
  (Shown("solid") /\ "solid_type" \in DOMAIN parsed.params
     /\ parsed.params.solid_type \notin SupportedSolids)
    => /\ Len(Infos) = 1
       /\ Len(Geometry) = 0
       /\ Len(Body) = 1

C6_Witness ==
  /\ Shown("solid")
  /\ "solid_type" \in DOMAIN parsed.params
  /\ parsed.params.solid_type = "sphere"
  /\ "sizes" \in DOMAIN parsed.params
  /\ Len(parsed.params.sizes) = 3
  /\ Len(Infos) = 1


\* the squared distance of two pixel points, in hundredths of a pixel
Dist2(p, q) ==
  LET dx == (p[1] - q[1]) \div 10
      dy == (p[2] - q[2]) \div 10
  IN  dx * dx + dy * dy

\* the integer square root of x >= 0, between lo and hi
RECURSIVE Isqrt(_, _, _)
Isqrt(x, lo, hi) ==
  IF lo >= hi THEN lo
  ELSE LET mid == (lo + hi + 1) \div 2
       IN  IF mid * mid <= x THEN Isqrt(x, mid, hi) ELSE Isqrt(x, lo, mid - 1)

\* the distance of two pixel points, fixed-point pixels
Dist2Root(p, q) == 10 * Isqrt(Dist2(p, q), 0, 46340)

\* the segment p q has length e (fixed-point pixels), up to Tol
LengthIs(p, q, e) ==
  LET ec == e \div 10
      t == Tol \div 10
  IN  Abs(Dist2(p, q) - ec * ec) <= 2 * ec * t + t * t

\* the request is a prism with sizes [n, side, height]
IsPrismRequest ==
  /\ Shown("solid")
  /\ Get(parsed.params, "solid_type", "prism") = "prism"
  /\ Len(Get(parsed.params, "sizes", <<>>)) >= 3

\* the development panels, in drawing order
Panels == SelectSeq(Geometry, IsPanel)

\* C7: for every prism request with sizes [n, side, height] and n >= 3,
\* draw_prism emits a top view that is a closed regular polygon with exactly n
\* vertices of side length side, a front view that is one rectangle of height
\* height and width equal to the plan bounding-box width, and a development of
\* exactly n rectangles each of width side and height height, all three drawn
\* at the same scale.
C7_PrismViews ==
  (IsPrismRequest /\ parsed.params.sizes[1] >= 3) =>
    LET n == parsed.params.sizes[1]
        side == Fx(parsed.params.sizes[2])
        height == Fx(parsed.params.sizes[3])
        scale == PrismScale(side, height)
        top == Geometry[1]
        front == Geometry[2]
        ct == Center(TOP_BOX)
    IN  /\ Len(Geometry) = n + 2
        /\ top.op = "line" /\ top.width = LINE_VP
        /\ Len(top.pts) = n + 1
        /\ top.pts[n + 1] = top.pts[1]
        /\ \A i \in 1..n : LengthIs(top.pts[i], top.pts[i + 1], Mul(side, scale))
        /\ \A i \in 1..n : LengthIs(top.pts[i], ct, Dist2Root(top.pts[1], ct))
        /\ front.op = "rectangle" /\ front.width = LINE_HP
        /\ Close(ExtentY(front.pts), Mul(height, scale))
        /\ Close(ExtentX(front.pts), ExtentX(SubSeq(top.pts, 1, n)))
        /\ Mid(front) = Center(FRONT_BOX)
        /\ Len(Panels) = n
        /\ \A i \in 1..n :
             /\ Close(ExtentX(Panels[i].pts), Mul(side, scale))
             /\ Close(ExtentY(Panels[i].pts), Mul(height, scale))

C7_Witness ==
  /\ IsPrismRequest
  /\ parsed.params.sizes[1] = 5
  /\ parsed.params.sizes[2] > 0
  /\ parsed.params.sizes[3] > parsed.params.sizes[2]
  /\ Len(Panels) = 5


\* the rectangles r (two corners) and box (left, top, right, bottom, whole
\* pixels) share no interior point
Outside(r, box) ==
  \/ MinSeq(Xs(r)) >= Fx(box[3]) \/ MaxSeq(Xs(r)) <= Fx(box[1])
  \/ MinSeq(Ys(r)) >= Fx(box[4]) \/ MaxSeq(Ys(r)) <= Fx(box[2])

\* C8: the development panels of a prism are congruent and laid edge-to-edge:
\* the right edge of panel i coincides with the left edge of panel i+1, all
\* panels have the same top and bottom, and every panel lies outside both the
\* front-view box and the top-view box.
C8_PanelsEdgeToEdge ==
  IsPrismRequest =>
    /\ \A i \in 1..Len(Panels) :
         /\ Panels[i].pts[1][2] = Panels[1].pts[1][2]
         /\ Panels[i].pts[2][2] = Panels[1].pts[2][2]
         /\ ExtentX(Panels[i].pts) = ExtentX(Panels[1].pts)
         /\ Outside(Panels[i].pts, FRONT_BOX)
         /\ Outside(Panels[i].pts, TOP_BOX)
    /\ \A i \in 1..(Len(Panels) - 1) :
         Close(Panels[i + 1].pts[1][1], Panels[i].pts[2][1])

-----------------------------------------------------------------------------
(* Claims about draw_lamina and draw_line (Spec)                           *)

LaminaShapes == {"triangle", "square", "rectangle", "pentagon", "hexagon", "circle"}

PolygonShapes == {"triangle", "square", "rectangle", "pentagon", "hexagon"}

ShapeOf(params) == Get(params, "shape", "triangle")

\* the true outline of a polygonal lamina of size s, in vertex order, mm
TrueOutline(shape, s) ==
  IF shape = "triangle" THEN regular_polygon_vertices(3, s)
  ELSE IF shape = "pentagon" THEN regular_polygon_vertices(5, s)
  ELSE IF shape = "hexagon" THEN regular_polygon_vertices(6, s)
  ELSE LET w == RectSize(shape, s)[1]
           h == RectSize(shape, s)[2]
       IN  << <<-(w \div 2), -(h \div 2)>>, <<w \div 2, -(h \div 2)>>,
              <<w \div 2, h \div 2>>, <<-(w \div 2), h \div 2>> >>

\* <<width, height>> of the true shape, mm
TrueExtent(shape, s) ==
  IF shape = "triangle" THEN << s, Mul(s, 866) >>
  ELSE IF shape = "circle" THEN << s, s >>
  ELSE << ExtentX(TrueOutline(shape, s)), ExtentY(TrueOutline(shape, s)) >>

\* C1: for every Line request and every Lamina request, all view-space
\* coordinates of the front view and of the top view are obtained from logical
\* millimetres through the one scale computed once for that request: the front
\* view's vertical pixel extent is scale x (true height x cos(surface_angle)),
\* the same factor that is applied to its horizontal extent and to the top view.
C1_OneScale ==
  /\ (Shown("lamina") /\ ShapeOf(parsed.params) \in LaminaShapes) =>
       LET shape == ShapeOf(parsed.params)
           s == LaminaSize(parsed.params)
           scale == LaminaScale(parsed.params)
           c == CosDeg(Get(parsed.params, "surface_angle", 60))
           wh == TrueExtent(shape, s)
           front == Geometry[1]
           top == Geometry[2]
       IN  /\ Close(ExtentX(front.pts), Mul(wh[1], scale))
           /\ Close(ExtentY(front.pts), Abs(Mul(Mul(wh[2], c), scale)))
           /\ IF shape = "circle"
                THEN /\ Close(ExtentX(top.pts), Mul(s, scale))
                     /\ Close(ExtentY(top.pts), Mul(s, scale))
                ELSE LengthIs(top.pts[1], top.pts[2], Mul(s, scale))
  /\ Shown("line") =>
       LET e == LineEnds(parsed.params)
           scale == LineScale(parsed.params)
           front == Geometry[1]
           top == Geometry[4]
       IN  /\ Close(ExtentX(front.pts), Mul(Abs(e[2][1] - e[1][1]), scale))
           /\ Close(ExtentY(front.pts), Mul(Abs(e[2][3] - e[1][3]), scale))
           /\ Close(ExtentX(top.pts), Mul(Abs(e[2][1] - e[1][1]), scale))
           /\ Close(ExtentY(top.pts), Mul(Abs(e[2][2] - e[1][2]), scale))

\* the Construction segments of the lamina, in drawing order
LaminaProjectors == SelectSeq(Geometry, IsProjector)

\* C2: for every polygonal Lamina request with n outline vertices, draw_lamina
\* emits exactly n Construction segments, and the i-th one joins front-view
\* vertex i to top-view vertex i where both are images of the same vertex i of
\* the true polygon (front: foreshortened, top: rotated by the edge angle).
C2_IndexPaired ==
  (Shown("lamina") /\ ShapeOf(parsed.params) \in PolygonShapes) =>
    LET shape == ShapeOf(parsed.params)
        s == LaminaSize(parsed.params)
        scale == LaminaScale(parsed.params)
        edge == Get(parsed.params, "edge_angle_to_VP", 45)
        c == CosDeg(Get(parsed.params, "surface_angle", 60))
        true == TrueOutline(shape, s)
        n == Len(true)
        cf == Center(FRONT_BOX)
        ct == Center(TOP_BOX)
        top == Geometry[2]
        proj == LaminaProjectors
    IN  /\ Len(proj) = n
        /\ \A i \in 1..n :
             LET f == proj[i].pts[1]
                 t == proj[i].pts[2]
                 r == Rotate(true[i], edge)
             IN  \* the top end is the image of true vertex i, and top vertex i
                 /\ t = top.pts[i]
                 /\ ClosePt(t, << ct[1] + Mul(r[1], scale), ct[2] + Mul(r[2], scale) >>)
                 \* the front end is the image of true vertex i: same lateral
                 \* position, and above or below the centre as the vertex is
                 /\ Close(f[1], cf[1] + Mul(true[i][1], scale))
                 /\ (c > 0 /\ true[i][2] < 0) => f[2] <= cf[2]
                 /\ (c > 0 /\ true[i][2] > 0) => f[2] >= cf[2]

\* the distance of a pixel point below (top view) or above (front view) XY
FromXY(p) == Abs(p[2] - Fx(XY_Y))

InfrontOf(p) == IF "infront" \in DOMAIN p THEN p.infront ELSE 30

AboveOf(p) == IF "above" \in DOMAIN p THEN p.above ELSE 30

\* C4: in the top view, increasing the distance in front of the vertical plane
\* moves the drawn point away from the XY line: for two Point requests (or two
\* Line endpoints) drawn at the same scale with y1 < y2, the top-view image of
\* y2 is farther from the XY line than the image of y1, while in the front view
\* a greater height is farther above the XY line.
C4_AwayFromXY ==
  /\ Shown("point") =>
       \A q \in PointParams :
         PointScale(q) = PointScale(parsed.params) =>
           LET mine == SelectSeq(Geometry, IsMarker)
               other == SelectSeq(draw_point(q, "A"), IsMarker)
           IN  /\ AboveOf(parsed.params) < AboveOf(q) =>
                    /\ Mid(other[1])[2] < Mid(mine[1])[2]
                    /\ Mid(other[1])[2] < Fx(XY_Y)
               /\ InfrontOf(parsed.params) < InfrontOf(q) =>
                    FromXY(Mid(other[2])) > FromXY(Mid(mine[2]))
  /\ Shown("line") =>
       LET e == LineEnds(parsed.params)
           front == Geometry[1]
           top == Geometry[4]
       IN  /\ e[1][3] < e[2][3] => front.pts[2][2] < front.pts[1][2]
           /\ e[1][2] < e[2][2] => FromXY(top.pts[2]) > FromXY(top.pts[1])

\* C5: for every Lamina request whose shape is not one of triangle, square,
\* rectangle, pentagon, hexagon, circle, draw_lamina produces a diagnostic-only
\* result: an informational message and no outline, ellipse or Construction
\* primitive; an unrecognized shape is never drawn as some other shape.
C5_UnsupportedLamina ==
  (Shown("lamina") /\ ShapeOf(parsed.params) \notin LaminaShapes)
    => /\ Len(Infos) = 1
       /\ Len(Geometry) = 0

-----------------------------------------------------------------------------
(* Claims about the scale and about out-of-domain input (Spec)             *)

\* what the page draws for a request, after draw_xy_line
Routed(req) ==
  IF req.type = "point"
    THEN draw_point(req.params, "A")
         \o draw_info_panel(Msg("Point projection",
                                << Get(req.params, "infront", 30),
                                   Get(req.params, "above", 30) >>))
  ELSE IF req.type = "line" THEN draw_line(req.params)
  ELSE IF req.type = "lamina" THEN draw_lamina(req.params)
  ELSE IF req.type = "solid" THEN draw_prism(req.params)
  ELSE draw_info_panel(Msg("Could not auto-detect question type.", <<>>))

\* the request is a prism with sizes [n, side, height]: sizes[1] is a count
CountFirst(req) ==
  /\ req.type = "solid"
  /\ Get(req.params, "solid_type", "prism") = "prism"
  /\ Len(Get(req.params, "sizes", <<>>)) >= 3

\* the dimensions of a request, as a sequence of whole mm (angles and counts
\* are not dimensions; an absent or None attribute contributes nothing)
DimsOf(req) ==
  LET p == req.params
      one(k) == IF k \in DOMAIN p THEN << p[k] >> ELSE <<>>
      num(k) == IF k \in DOMAIN p /\ p[k].k = "num" THEN << p[k].v >>
                ELSE IF k \in DOMAIN p /\ p[k].k = "list" THEN p[k].v
                ELSE <<>>
      lst(k) == IF k \notin DOMAIN p THEN <<>>
                ELSE IF CountFirst(req) THEN Tail(p[k])
                ELSE p[k]
  IN  IF req.type = "point" THEN one("infront") \o one("above")
      ELSE IF req.type = "line" THEN num("true_length")
      ELSE IF req.type = "lamina" THEN num("size") \o lst("sizes")
      ELSE IF req.type = "solid" THEN lst("sizes")
      ELSE <<>>

\* the request with every dimension doubled, angles and counts unchanged
Doubled(req) ==
  LET p == req.params
      twice(s) == [i \in 1..Len(s) |-> 2 * s[i]]
      dbl(k) ==
        IF req.type = "point" /\ k \in {"infront", "above"} THEN 2 * p[k]
        ELSE IF k \in {"true_length", "size"}
          THEN IF p[k].k = "num" THEN Num(2 * p[k].v)
               ELSE IF p[k].k = "list" THEN List(twice(p[k].v))
               ELSE p[k]
        ELSE IF k = "sizes"
          THEN IF CountFirst(req) THEN << p[k][1] >> \o twice(Tail(p[k]))
               ELSE twice(p[k])
        ELSE p[k]
  IN  [type |-> req.type, params |-> [k \in DOMAIN p |-> dbl(k)]]

\* every dimension the routine reads is supplied and positive
HasDims(req) ==
  LET d == DimsOf(req)
  IN  /\ \A i \in 1..Len(d) : d[i] > 0
      /\ IF req.type = "point" THEN Len(d) = 2
         ELSE IF req.type = "solid" THEN Len(Get(req.params, "sizes", <<>>)) >= 3
         ELSE Len(d) >= 1

\* a fixed-radius marker: its emitted point is its centre
IsDot(p) == p.op = "ellipse" /\ p.src \in {"draw_point", "draw_line"}

\* the points a geometry primitive was emitted at
Anchors(p) == IF IsDot(p) THEN << Mid(p) >> ELSE p.pts

\* the image of the logical origin in the area a pixel point lies in: the
\* development's first corner, the front box centre or the top box centre
ViewOrigin(q) ==
  IF q[1] >= Fx(INFO_BOX[1]) THEN << Fx(INFO_BOX[1] + 20), Fx(FRONT_BOX[2]) >>
  ELSE IF q[2] < Fx(XY_Y) THEN Center(FRONT_BOX)
  ELSE Center(TOP_BOX)

\* C11: scale invariance: for any request, doubling every dimension (lengths,
\* sizes, distances; angles unchanged) doubles the pixel displacement of every
\* emitted point from its view's origin, hence the pixel distance between every
\* pair of points of a view, and leaves the directions between them unchanged.
C11_ScaleInvariance ==
  (pc = "shown" /\ HasDims(parsed)) =>
    LET one == Geometry
        two == SelectSeq(Routed(Doubled(parsed)), IsGeometry)
    IN  /\ Len(two) = Len(one)
        /\ \A i \in 1..Len(one) :
             LET a == Anchors(one[i])
                 b == Anchors(two[i])
             IN  \A j \in 1..Len(a) :
                   LET o == ViewOrigin(a[j])
                   IN  /\ Close(b[j][1] - o[1], 2 * (a[j][1] - o[1]))
                       /\ Close(b[j][2] - o[2], 2 * (a[j][2] - o[2]))

\* the request carries a negative length, size or distance
OutOfDomain(req) == \E i \in 1..Len(DimsOf(req)) : DimsOf(req)[i] < 0

\* C12: a request carrying a negative length, size or distance is rejected
\* before anything is drawn: once Generate has run for it, no outline, marker,
\* projector or development primitive is on the canvas.
C12_RejectsNegative ==
  (pc # "idle" /\ OutOfDomain(parsed)) =>
    /\ pc = "error"
    /\ Len(Geometry) = 0

\* the request is of a kind the page routes to a drawing routine
Routable(req) == req.type \in {"point", "line", "lamina", "solid"}

\* the extent the routine of the request hands to the scaler
ExtentOf(req) ==
  IF req.type = "point" THEN PointExtent(req.params)
  ELSE IF req.type = "line" THEN LineExtent(req.params)
  ELSE IF req.type = "lamina" THEN LaminaExtent(req.params)
  ELSE SolidExtent(req.params)

\* the scale the routine of the request draws with
ScaleOf(req) == fit_scale_for_box(ExtentOf(req), FRONT_BOX)

\* the request is a solid of one of the six types drawn
IsSupportedSolid(req) ==
  req.type = "solid" /\ Get(req.params, "solid_type", "prism") \in SupportedSolids

\* the width in mm of a solid's elevation: the plan's bounding box for a
\* prism, the first dimension otherwise
ElevationWidth(params) ==
  IF Get(params, "solid_type", "prism") = "prism"
    THEN PlanWidth(PrismSizes(Get(params, "sizes", <<>>))[1], SolidDims(params)[1])
    ELSE SolidDims(params)[1]

\* a drawn primitive as wide as the elevation: the front rectangle of a
\* prism, the first primitive otherwise
ElevationPrim ==
  IF Get(parsed.params, "solid_type", "prism") = "prism" THEN Geometry[2]
  ELSE Geometry[1]

\* C13: the scaler never fails: the scale is exactly 1.0 when the extent is 0
\* and otherwise min(w / extent, h / extent) of the box's usable width and
\* height, so for every request with non-negative dimensions, all-zero sizes of
\* a cube, cuboid, cylinder, cone, pyramid or prism included, the scale is
\* strictly positive, the solid is drawn at it, and no run fails by a division
\* by zero (a run fails only by the list-valued size).
C13_ScalerNeverFails ==
  /\ (pc = "shown" /\ Routable(parsed) /\ ~OutOfDomain(parsed)) =>
       LET e == ExtentOf(parsed)
           s == ScaleOf(parsed)
           w == Fx(FRONT_BOX[3] - FRONT_BOX[1] - 20)
           h == Fx(FRONT_BOX[4] - FRONT_BOX[2] - 20)
       IN  /\ s > 0
           /\ e = 0 => s = U
           /\ e # 0 => s = Min2((w * U) \div e, (h * U) \div e)
           /\ IsSupportedSolid(parsed) =>
                Close(ExtentX(ElevationPrim.pts), Mul(ElevationWidth(parsed.params), s))
  /\ pc = "error" => LaminaRaises(parsed.params)

C13_Witness ==
  /\ Shown("solid")
  /\ parsed.params = [solid_type |-> "cuboid", sizes |-> <<0, 0, 0>>]
  /\ ExtentOf(parsed) = 0
  /\ Len(Geometry) = 2

-----------------------------------------------------------------------------
(* Claims about draw_line's attributes and about labels (Spec)             *)

\* the value a Line request supplies under key, the default when the attribute
\* is absent (None)
Supplied(params, key, dflt) ==
  LET x == Get(params, key, NoneV)
  IN  IF x.k = "none" THEN dflt ELSE x.v

\* C14: for every Line request, endpoint B minus endpoint A has vertical rise
\* true_length x sin(angle_to_HP) in the supplied attribute values; the
\* defaults 80 / 30 / 45 stand in only for an absent attribute, so a supplied
\* angle_to_HP of 0 gives a rise of 0 (the front view is horizontal).
C14_RiseFromSupplied ==
  Shown("line") =>
    LET L == Fx(Supplied(parsed.params, "true_length", 80))
        alpha == Supplied(parsed.params, "angle_hp", 30)
        scale == LineScale(parsed.params)
        front == Geometry[1]
    IN  /\ Close(front.pts[1][2] - front.pts[2][2], Mul(Mul(L, SinDeg(alpha)), scale))
        /\ alpha = 0 => front.pts[2][2] = front.pts[1][2]

\* a vertex label
IsLabel(p) == p.op = "text" /\ p.src \in {"draw_point", "draw_line"}

Labels == SelectSeq(Body, IsLabel)

Unprimed == {"A", "B"}

Primed == {"A'", "B'", "A''", "B''"}

\* C15: every vertex label emitted by draw_point and draw_line follows the
\* view-labeling convention: a label placed in the top view (below XY) is the
\* unprimed vertex name, and a label placed in the front view (above XY) is
\* the primed or double-primed name.
C15_LabelConvention ==
  (Shown("point") \/ Shown("line")) =>
    /\ Len(Labels) > 0
    /\ \A i \in 1..Len(Labels) :
         LET l == Labels[i]
         IN  /\ l.pts[1][2] > Fx(XY_Y) => l.text.msg \in Unprimed
             /\ l.pts[1][2] < Fx(XY_Y) => l.text.msg \in Primed

-----------------------------------------------------------------------------
(* The web app: requests of two browser sessions, handled concurrently     *)

\* "P_1: ... i mm infront of VP ... a mm above HP", "L_3: ... l mm ... t°",
\* "PL_1: A triangular lamina of s mm sides ...", "DLS_7: ... cylinder ...
\* d mm ... h mm", and an empty form
Questions ==
  { Question(<<"P", "_", "1">>, {"point"}, <<i, a>>, <<>>, Num(i), Num(a)) :
      i \in {LenStep}, a \in {LenStep} }
  \cup { Question(<<"L", "_", "3">>, {"line"}, <<l>>, <<t>>, NoneV, NoneV) :
           l \in {2 * LenStep}, t \in {2 * AngStep} }
  \cup { Question(<<"P", "L", "_", "1">>, {"triangular", "lamina"}, <<s>>, <<>>, NoneV, NoneV) :
           s \in {LenStep} }
  \cup { Question(<<"D", "L", "S", "_", "7">>, {"cylinder"}, <<d, h>>, <<>>, NoneV, NoneV) :
           d \in {LenStep}, h \in {2 * LenStep} }
  \cup { NoQuestion }

Usernames == { "student", "guest", "absent" }

Passwords == { "cad2026", "wrong", "absent" }

\* session.get('user') is truthy
LoggedIn(c) == web.client[c].user # "absent"

Idle(c) == web.client[c].step = "idle"

Page == <<parsed, canvas, FONT, pc, calc>>

WebInit ==
  /\ parsed = Unparsed
  /\ canvas = <<>>
  /\ FONT = 0
  /\ pc = "idle"
  /\ calc = CalcIdle
  /\ web = WebIdle

\* POST /login
login(c, u, p) ==
  /\ Idle(c)
  /\ web' = IF USERS(u) = p
              THEN [web EXCEPT !.client[c].user = u,
                               !.client[c].got = Response("redirect_home")]
              ELSE [web EXCEPT !.client[c].got = Response("login_page")]
  /\ UNCHANGED Page

\* GET /logout
logout(c) ==
  /\ Idle(c)
  /\ web' = [web EXCEPT !.client[c].user = "absent",
                        !.client[c].got = Response("redirect_login")]
  /\ UNCHANGED Page

\* GET /
home(c) ==
  /\ Idle(c)
  /\ web' = [web EXCEPT !.client[c].got =
               IF LoggedIn(c) THEN Response("index") ELSE Response("redirect_login")]
  /\ UNCHANGED Page

\* POST /solve, up to builder.save(scr_path)
solve(c, q) ==
  /\ Idle(c)
  /\ LET r == solve_question(q)
     IN  web' =
           IF ~LoggedIn(c) THEN [web EXCEPT !.client[c].got = Response("redirect_login")]
           ELSE IF ~r.ok THEN [web EXCEPT !.client[c].got = Response("redirect_home")]
           ELSE [web EXCEPT !.files[scr_path] = File("scr", r.prim),
                            !.client[c].step = "saving",
                            !.client[c].q = q,
                            !.client[c].prim = r.prim,
                            !.client[c].got = Response("none")]
  /\ UNCHANGED Page

\* POST /solve, from save_dxf(primitives, dxf_path) to the response
solve_save_dxf(c) ==
  /\ web.client[c].step = "saving"
  /\ web' = [web EXCEPT !.files[dxf_path] = File("dxf", web.client[c].prim),
                        !.client[c].step = "idle",
                        !.client[c].prim = <<>>,
                        !.client[c].got = Response("links")]
  /\ UNCHANGED Page

\* GET /download/<path:filename>
download(c, filename) ==
  /\ Idle(c)
  /\ web' = [web EXCEPT !.client[c].got =
               IF ~LoggedIn(c) THEN Response("redirect_login")
               ELSE IF web.files[filename] = NoFile THEN Response("not_found")
               ELSE [kind |-> "file", body |-> web.files[filename]]]
  /\ UNCHANGED Page

WebNext ==
  \/ \E c \in Clients, u \in Usernames, p \in Passwords : login(c, u, p)
  \/ \E c \in Clients : logout(c)
  \/ \E c \in Clients : home(c)
  \/ \E c \in Clients, q \in Questions : solve(c, q)
  \/ \E c \in Clients : solve_save_dxf(c)
  \/ \E c \in Clients, f \in Paths : download(c, f)

WebSpec == WebInit /\ [][WebNext]_vars

-----------------------------------------------------------------------------
(* Claims about the web app (WebSpec)                                      *)

\* the artifact solve_question generates from question q in format fmt
Artifact(q, fmt) == File(fmt, solve_question(q).prim)

\* client c fetched one of the two generated files after a solve of its own
FetchedOwn(c) ==
  /\ web.client[c].got.kind = "file"
  /\ web.client[c].got.body.fmt \in {"scr", "dxf"}
  /\ web.client[c].q # NoQuestion

\* C16: generation is safe to run concurrently for independent requests: under
\* every interleaving of two sessions' generate and fetch steps, the artifact
\* a requester fetches after its solve is the one generated from its own
\* question, because nothing one request writes is read or overwritten by the
\* other.
C16_OwnArtifact ==
  \A c \in Clients :
    FetchedOwn(c) =>
      web.client[c].got.body = Artifact(web.client[c].q, web.client[c].got.body.fmt)

-----------------------------------------------------------------------------
(* Claims about the rectangle lamina and the pyramid (Spec)                *)

\* the width and height a rectangle request gives: under 'sizes', or as a
\* list under 'size'
GivenWH(params) ==
  IF "size" \in DOMAIN params /\ params.size.k = "list" THEN params.size.v
  ELSE IF "size" \notin DOMAIN params /\ "sizes" \in DOMAIN params THEN params.sizes
  ELSE <<>>

\* the request is a rectangle lamina given both a width and a height
IsRectangleWH(req) ==
  /\ req.type = "lamina"
  /\ ShapeOf(req.params) = "rectangle"
  /\ Len(GivenWH(req.params)) >= 2
  /\ GivenWH(req.params)[1] > 0
  /\ GivenWH(req.params)[2] > 0

\* C17: for a rectangle Lamina given both a width and a height, the rectangle
\* is drawn, and drawn with the supplied width and the supplied height: the
\* front view has width w, the top view is the w x h rectangle turned by the
\* edge angle, and h is not replaced by a value derived from w.
C17_RectangleWH ==
  (pc # "idle" /\ IsRectangleWH(parsed)) =>
    /\ pc = "shown"
    /\ LET w == Fx(GivenWH(parsed.params)[1])
           h == Fx(GivenWH(parsed.params)[2])
           scale == LaminaScale(parsed.params)
           front == Geometry[1]
           top == Geometry[2]
       IN  /\ Close(ExtentX(front.pts), Mul(w, scale))
           /\ LengthIs(top.pts[1], top.pts[2], Mul(w, scale))
           /\ LengthIs(top.pts[2], top.pts[3], Mul(h, scale))

\* the request is a pyramid with sizes [base, height, ...], none negative
IsPyramid(req) ==
  /\ req.type = "solid"
  /\ Get(req.params, "solid_type", "prism") = "pyramid"
  /\ Len(Get(req.params, "sizes", <<>>)) >= 2
  /\ ~OutOfDomain(req)

\* C18: for every pyramid request with sizes [base, height], the front view is
\* an isosceles triangle whose base width is base x scale and whose vertical
\* extent, apex to base line, is exactly height x scale, and the top view is
\* the true base polygon (a square of side base) at the same scale.
C18_PyramidViews ==
  (pc = "shown" /\ IsPyramid(parsed)) =>
    LET base == SolidDims(parsed.params)[1]
        height == SolidDims(parsed.params)[2]
        scale == ScaleOf(parsed)
        top == Geometry[1]
        front == Geometry[2]
    IN  /\ front.op = "polygon" /\ Len(front.pts) = 3
        /\ front.pts[1][2] = front.pts[2][2]
        /\ Close(front.pts[2][1] - front.pts[1][1], Mul(base, scale))
        /\ 2 * front.pts[3][1] = front.pts[1][1] + front.pts[2][1]
        /\ Close(front.pts[1][2] - front.pts[3][2], Mul(height, scale))
        /\ top.op = "line" /\ Len(top.pts) = 5 /\ top.pts[5] = top.pts[1]
        /\ \A i \in 1..4 : LengthIs(top.pts[i], top.pts[i + 1], Mul(base, scale))

-----------------------------------------------------------------------------
(* Claims about the extent the scale is computed from (Spec)               *)

\* the safety margin the routine of the request multiplies its extent by,
\* fixed point
MarginOf(req) ==
  IF req.type = "point" THEN 2 * U
  ELSE IF req.type \in {"line", "lamina"} THEN 2200
  ELSE IF Get(req.params, "solid_type", "prism") = "cylinder" THEN 2500
  ELSE 3 * U

\* the dimensions the routine of the request draws with, fixed point, the
\* defaults included
DrawnDims(req) ==
  IF req.type = "point"
    THEN << Fx(Get(req.params, "infront", 30)), Fx(Get(req.params, "above", 30)) >>
  ELSE IF req.type = "line" THEN << Fx(GetOr(req.params, "true_length", 80)) >>
  ELSE IF req.type = "lamina" THEN << LaminaSize(req.params) >>
  ELSE SolidDims(req.params)

\* C19: for every request kind that is drawn, the extent the single scale is
\* computed from is at least the safety margin times every dimension of the
\* construction drawn (both base and height of a pyramid, for one).
C19_ExtentCoversAll ==
  (pc = "shown" /\ Routable(parsed) /\ ~OutOfDomain(parsed)
     /\ (parsed.type = "solid" => IsSupportedSolid(parsed))) =>
    \A i \in 1..Len(DrawnDims(parsed)) :
      ExtentOf(parsed) >= Mul(DrawnDims(parsed)[i], MarginOf(parsed))

-----------------------------------------------------------------------------
(* Claims about draw_line's advisory facts (Spec)                          *)

\* the Line request with angle_vp set to b, everything else as supplied
WithBeta(params, b) ==
  [k \in DOMAIN params \cup {"angle_vp"} |-> IF k = "angle_vp" THEN b ELSE params[k]]

NotInfo(p) == ~IsInfo(p)

\* C20: the advisory facts of draw_line never alter geometry: the Line request
\* drawn and the same request with any other angle_vp (absent as None) emit
\* the same segments, markers, projectors and labels in both views, placed from
\* true_length and angle_hp alone, and differ in the info text only (they do
\* differ there when the angle differs).
C20_AdvisoryOnly ==
  Shown("line") =>
    /\ Len(Geometry) = 8 /\ Len(Infos) = 1
    /\ \A b \in OptAngles :
         LET other == draw_line(WithBeta(parsed.params, b))
         IN  /\ SelectSeq(other, NotInfo) = SelectSeq(Body, NotInfo)
             /\ GetOr(WithBeta(parsed.params, b), "angle_vp", 45)
                  # GetOr(parsed.params, "angle_vp", 45)
                  => SelectSeq(other, IsInfo) # Infos
    /\ LET L == Fx(Supplied(parsed.params, "true_length", 80))
           alpha == Supplied(parsed.params, "angle_hp", 30)
           scale == LineScale(parsed.params)
       IN  (L > 0 /\ alpha > 0) =>
             /\ Close(ExtentY(Geometry[1].pts), Abs(Mul(Mul(L, SinDeg(alpha)), scale)))
             /\ Close(ExtentX(Geometry[4].pts),
                      Abs(Mul(Mul(Mul(L, CosDeg(alpha)), CosDeg(25)), scale)))

C20_Witness ==
  /\ Shown("line")
  /\ "angle_vp" \in DOMAIN parsed.params
  /\ parsed.params.angle_vp.k = "num"
  /\ parsed.params.angle_vp.v \notin {0, 45}
  /\ parsed.params.true_length.k = "num"
  /\ parsed.params.angle_hp.k = "num"
  /\ Len(Geometry) = 8

-----------------------------------------------------------------------------
(* Claims about the web app's dispatch and access control (WebSpec)        *)

\* the position of the first underscore of head, 0 when there is none
Underscore(head) ==
  IF \E i \in 1..Len(head) : head[i] = "_"
    THEN CHOOSE i \in 1..Len(head) : head[i] = "_" /\ \A j \in 1..(i - 1) : head[j] # "_"
    ELSE 0

\* the problem code a question is headed by: the letters before _<n>
HeadCode(head) == [i \in 1..(Underscore(head) - 1) |-> Upper(head[i])]

\* the question starts with P_<n>, L_<n>, PL_<n> or DLS_<n>
IsCoded(q) ==
  /\ Underscore(q.head) > 1
  /\ Underscore(q.head) < Len(q.head)
  /\ \A i \in (Underscore(q.head) + 1)..Len(q.head) : q.head[i] \in Digits
  /\ HeadCode(q.head) \in { <<"P">>, <<"L">>, <<"P", "L">>, <<"D", "L", "S">> }

\* what the routine of problem code draws for question q
DrawnFor(code, q) ==
  IF code = <<"P">> THEN
    proj_point([infront |-> IF q.infront.k = "num" THEN q.infront.v ELSE 0,
                above |-> IF q.above.k = "num" THEN q.above.v ELSE 0])
  ELSE IF code = <<"L">> THEN
    proj_line([length |-> IF Len(q.nums) > 0 THEN q.nums[1] ELSE 80,
               theta |-> IF Len(q.angles) > 0 THEN q.angles[1] ELSE 30])
  ELSE IF code = <<"P", "L">> THEN
    proj_plane_lamina(
      [shape |-> IF q.words \cap {"circular", "circle"} # {} THEN "circle"
                 ELSE IF "square" \in q.words THEN "square" ELSE "triangle",
       size |-> IF Len(q.nums) > 0 THEN q.nums[1] ELSE 30,
       incline |-> IF Len(q.angles) > 0 THEN q.angles[1] ELSE 60,
       resting_edge |-> IF Len(q.angles) > 1 THEN q.angles[2] ELSE 45])
  ELSE
    proj_solid([shape |-> IF "cylinder" \in q.words THEN "cylinder" ELSE "prism",
                size |-> IF Len(q.nums) > 0 THEN q.nums[1] ELSE 50,
                height |-> IF Len(q.nums) > 1 THEN q.nums[2] ELSE 100])

\* C21: a question that starts with a problem code is dispatched by that
\* code: for every solve of a question headed P_<n>, L_<n>, PL_<n> or DLS_<n>,
\* detect_problem_type returns P, L, PL or DLS respectively and the
\* primitives generated are those of that code's routine, so a PL_ question
\* gives a plane lamina and never a point.
C21_DispatchByCode ==
  \A c \in Clients :
    (web.client[c].step = "saving" /\ IsCoded(web.client[c].q)) =>
      LET q == web.client[c].q
      IN  /\ detect_problem_type(q.head, q.words) = HeadCode(q.head)
          /\ web.client[c].prim = DrawnFor(HeadCode(q.head), q) \o << XYMarker >>

-----------------------------------------------------------------------------
(* Claims about parse_text_question (ParseSpec)                            *)

\* the text ends "... inclined X deg to HP and Y deg to VP": X and Y, and the
\* length stated before mm
StatedX(text) == text[Len(text) - 8].n

StatedY(text) == text[Len(text) - 3].n

StatedLength(text) ==
  LET i == CHOOSE i \in 1..Len(text) :
             /\ IsNumber(text, i) /\ IsWord(text, i + 1, {"mm"})
             /\ \A j \in 1..(i - 1) : ~(IsNumber(text, j) /\ IsWord(text, j + 1, {"mm"}))
  IN  text[i].n

IsInclinedForm(text) ==
  /\ Len(text) >= 12
  /\ SubSeq(text, Len(text) - 9, Len(text))
       \in { InclinedTo(StatedX(text), StatedY(text), unit) : unit \in AngleUnits }

\* C22: for a line question of the documented form "... inclined X deg to HP
\* and Y deg to VP", parse_text_question returns type 'line' with angle_hp = X
\* and angle_vp = Y, for all X and Y, and true_length equal to the stated
\* length.
C22_ParsesBothAngles ==
  ("raw" \in DOMAIN parsed /\ IsInclinedForm(parsed.raw)) =>
    /\ parsed.type = "line"
    /\ parsed.params.true_length = Num(StatedLength(parsed.raw))
    /\ parsed.params.angle_hp = Num(StatedX(parsed.raw))
    /\ parsed.params.angle_vp = Num(StatedY(parsed.raw))

\* the keys of USERS
UserKeys == { u \in Usernames : USERS(u) # "absent" }

\* the step is a login POST of session c with a username that is a key of
\* USERS and that user's stored password
ValidLogin(c) ==
  \E u \in UserKeys, p \in Passwords : p = USERS(u) /\ login(c, u, p)

\* session c got no file, no download links and no question form, and runs
\* no solve
TurnedAway(c) ==
  /\ web.client[c].step = "idle"
  /\ web.client[c].got.kind \notin {"file", "links", "index"}
  /\ web.client[c].got.body = NoFile

\* C23: in any sequence of login, logout, home, solve and download requests, a
\* session becomes authenticated only through a login POST whose username is a
\* key of USERS and whose password equals the stored password; while a
\* session is not authenticated, solve generates no files and download returns
\* no file content: both redirect to the login page.
C23_AuthenticatedOnlyByLogin ==
  /\ [](\A c \in Clients : ~LoggedIn(c) => TurnedAway(c))
  /\ [][\A c \in Clients :
          /\ (~LoggedIn(c) /\ LoggedIn(c)') => ValidLogin(c)
          /\ (~LoggedIn(c) /\ ~LoggedIn(c)' /\ web'.client[c] # web.client[c]) =>
               web'.files = web.files]_vars

\* C25: the download route serves only artifacts produced by a solve request:
\* for every authenticated download, the file returned is one of the generated
\* output files (the .scr or .dxf written by solve_question from some
\* question), never any other existing file named by the request path.
C25_DownloadsOnlyArtifacts ==
  \A c \in Clients :
    web.client[c].got.kind = "file" =>
      /\ web.client[c].got.body.fmt \in {"scr", "dxf"}
      /\ \E q \in Questions :
           /\ solve_question(q).ok
           /\ web.client[c].got.body = Artifact(q, web.client[c].got.body.fmt)

-----------------------------------------------------------------------------
(* Claims about the prism's development and about the view boxes (Spec)    *)

\* the request is drawn by the prism branch, with any sizes list
IsAnyPrism ==
  /\ Shown("solid")
  /\ Get(parsed.params, "solid_type", "prism") = "prism"

\* C24: for every prism request, the number of development panels equals the
\* number of vertices of the top-view polygon, for every value of n in the
\* sizes list, n < 3 (where the polygon is clamped to 3 vertices) and n = 0
\* included.
C24_PanelsMatchPolygon ==
  IsAnyPrism =>
    /\ Geometry[1].op = "line"
    /\ Geometry[1].pts[Len(Geometry[1].pts)] = Geometry[1].pts[1]
    /\ Len(Panels) = Len(Geometry[1].pts) - 1

\* the primitives of the two views: the geometry that is neither a projector
\* nor a development panel; the top view is drawn LINE_VP wide, the front
\* view LINE_HP wide or as a polygon
IsView(p) == IsGeometry(p) /\ ~IsProjector(p) /\ ~IsPanel(p)

IsTopView(p) == IsView(p) /\ p.op # "polygon" /\ p.width = LINE_VP

IsFrontView(p) == IsView(p) /\ ~IsTopView(p)

\* every point of primitive p lies inside box (left, top, right, bottom)
InBox(p, box) ==
  \A i \in 1..Len(p.pts) :
    /\ Fx(box[1]) <= p.pts[i][1] /\ p.pts[i][1] <= Fx(box[3])
    /\ Fx(box[2]) <= p.pts[i][2] /\ p.pts[i][2] <= Fx(box[4])

\* C26: for every request with non-negative dimensions, every front-view point
\* emitted lies inside FRONT_BOX and every top-view point inside TOP_BOX, so
\* the front view never crosses the XY reference line into the top view; this
\* holds for points, lines, every lamina shape and every solid type.
C26_ViewsInsideBoxes ==
  (pc = "shown" /\ Routable(parsed) /\ ~OutOfDomain(parsed)) =>
    \A i \in 1..Len(Body) :
      /\ IsFrontView(Body[i]) =>
           /\ InBox(Body[i], FRONT_BOX)
           /\ \A j \in 1..Len(Body[i].pts) : Body[i].pts[j][2] < Fx(XY_Y)
      /\ IsTopView(Body[i]) => InBox(Body[i], TOP_BOX)

====
